---- MODULE Spec2Model ----
(***************************************************************************)
(* RAG-CL: the content-block extraction pipeline (ragcl/entity_extractor.py *)
(* and its two sibling implementations), the response recoverer            *)
(* (_parse_llm_response) and the batch orchestrator                        *)
(* (RAGAnythingCL.parse_documents_batch) as state machines.                *)
(*                                                                         *)
(* Seven specifications share the variables below; each one leaves the    *)
(* variables of the others at their idle values:                        *)
(*   SpecParse    a response recoverer applied to a bounded response       *)
(*   SpecBatch    one call of parse_documents_batch, results not saved     *)
(*   SpecExtract  one pipeline run of an entity extractor                  *)
(*   SpecRender   a table renderer applied to a bounded table              *)
(*   SpecMerge    _merge_text_blocks applied to a bounded block sequence   *)
(*   SpecSave     parse_documents_batch with result saving                 *)
(***************************************************************************)
EXTENDS Integers, Sequences, FiniteSets, TLC

VARIABLES
    \* ---- response recoverer ----
    response,       \* the raw completion handed to _parse_llm_response
    parsed,         \* what _parse_llm_response returned
    ppc,            \* "idle" | "ready" | "done"
    \* ---- batch orchestrator (RAGAnythingCL.parse_documents_batch) ----
    file_paths,     \* the input list
    batch_size,     \* config.batch_size
    max_workers,    \* config.max_workers
    outcome,        \* what parse_document does for each input file
    batch_start,    \* the loop variable i of the chunk loop (0-based)
    next_submit,    \* position (1-based) of the next file the comprehension submits
    future,         \* per input position: the future of its parse_document call
    batch_of,       \* per input position: numbers of the chunks that submitted it
    yielded,        \* positions whose future as_completed has handed to the loop body
    results,        \* the success mapping, keyed by str(file_path)
    failed_files,   \* the failure list
    returned,       \* what the caller holds: NotReturned until the return
    bpc,            \* main thread: "idle" | "loop" | "submit" | "collect" | "done"
    save_intermediate,  \* config.save_intermediate
    saved,          \* the output directory: output file -> what it holds
    writing,        \* positions whose worker has its output file open for writing
    \* ---- extraction pipeline (extract_entities_from_content_list) ----
    impl,               \* which extractor runs: "basic" | "raganything" | "lightrag"
    content_list,       \* the caller's block sequence (block_index is written into it)
    extract_relations,  \* the relationship flag
    svc,                \* what the inference service answers for each unit of work
    text_blocks,        \* classification: the text sub-sequence
    table_blocks,       \* classification: the table sub-sequence
    processed_blocks,   \* the merged text units
    all_entities,       \* entities accumulated so far
    all_relationships,  \* relationships accumulated so far
    doc_analysis,       \* the recovered document analysis
    epc,                \* control position of the run
    unit_idx,           \* index of the current unit in its loop
    in_flight,          \* the inference call that is outstanding (<<>> if none)
    calls,              \* every inference call issued so far, in order
    result,             \* what the coroutine gave its caller: nothing yet, a result or an exception
    sync_result,        \* what extract_entities_sync returned
    \* ---- table renderers ----
    table_body,         \* the table handed to a renderer: rows of cells
    renderer,           \* "_format_table_for_llm" | "_format_table_data"
    rendered            \* what the renderer returned

parseVars == <<response, parsed, ppc>>

batchVars == <<file_paths, batch_size, max_workers, outcome, batch_start,
               next_submit, future, batch_of, yielded, results, failed_files,
               returned, bpc, save_intermediate, saved, writing>>

saveVars == <<save_intermediate, saved, writing>>

inputVars == <<impl, content_list, extract_relations, svc>>
classVars == <<text_blocks, table_blocks, processed_blocks>>
accVars == <<all_entities, all_relationships, doc_analysis>>
ctlVars == <<epc, unit_idx>>
callVars == <<in_flight, calls>>
outVars == <<result, sync_result>>

extractVars == <<impl, content_list, extract_relations, svc, text_blocks,
                 table_blocks, processed_blocks, all_entities,
                 all_relationships, doc_analysis, epc, unit_idx, in_flight,
                 calls, result, sync_result>>

renderVars == <<table_body, renderer, rendered>>

vars == <<response, parsed, ppc,
          file_paths, batch_size, max_workers, outcome, batch_start,
          next_submit, future, batch_of, yielded, results, failed_files,
          returned, bpc, save_intermediate, saved, writing,
          impl, content_list, extract_relations, svc, text_blocks,
          table_blocks, processed_blocks, all_entities,
          all_relationships, doc_analysis, epc, unit_idx, in_flight,
          calls, result, sync_result,
          table_body, renderer, rendered>>

----------------------------------------------------------------------------
(***************************************************************************)
(* Text as token sequences.  A completion is a sequence of tokens:         *)
(*   "F"  a fence of three backticks          "J"  the language tag json   *)
(*   "s"  a whitespace character              "w"  a word of prose         *)
(*   "{" "}"  braces                                                       *)
(*   "t"  the JSON literal true               "z"  the JSON literal null   *)
(*   "b"  a backslash                                                      *)
(* A JSON object is written "{" value* "}" (keys and commas are part of    *)
(* the value tokens); whitespace may stand between any two tokens.         *)
(***************************************************************************)
Tokens == {"F", "J", "s", "w", "{", "}", "t", "z", "b"}

MaxLen == 5

Strings == UNION {[1..n -> Tokens] : n \in 0..MaxLen}

\* Python's None (also what json.loads gives for the literal null)
None == <<>>

\* the recoverer's variables while another specification runs
ParseIdle ==
    /\ response = <<>>
    /\ parsed = None
    /\ ppc = "idle"

\* no renderer has returned yet
NotRendered == [done |-> FALSE, placeholder |-> FALSE, rows |-> <<>>]

\* the renderers' variables while another specification runs
RenderIdle ==
    /\ table_body = <<>>
    /\ renderer = "idle"
    /\ rendered = NotRendered

\* the coroutine has not handed anything to its caller yet
NoResult == [kind |-> "none"]

\* the pipeline's variables while another specification runs
ExtractIdle ==
    /\ impl = "idle"
    /\ content_list = <<>>
    /\ extract_relations = FALSE
    /\ svc = <<>>
    /\ text_blocks = <<>>
    /\ table_blocks = <<>>
    /\ processed_blocks = <<>>
    /\ all_entities = <<>>
    /\ all_relationships = <<>>
    /\ doc_analysis = [kind |-> "dict", key_present |-> FALSE,
                       items |-> <<>>, items_null |-> FALSE]
    /\ epc = "idle"
    /\ unit_idx = 0
    /\ in_flight = <<>>
    /\ calls = <<>>
    /\ result = NoResult
    /\ sync_result = NoResult

IsSpace(c) == c = "s"

\* str.strip(): drop leading and trailing whitespace
RECURSIVE LStrip(_)
LStrip(str) ==
    IF str # <<>> /\ IsSpace(Head(str)) THEN LStrip(Tail(str)) ELSE str

RECURSIVE RStrip(_)
RStrip(str) ==
    IF str # <<>> /\ IsSpace(str[Len(str)])
    THEN RStrip(SubSeq(str, 1, Len(str) - 1))
    ELSE str

Strip(str) == RStrip(LStrip(str))

\* The JSON scanner: ScanValue(str, i) is the position after the JSON value
\* that starts at i, or 0 when no value starts there; ScanMembers scans the
\* inside of an object up to and including its closing brace.
RECURSIVE ScanValue(_, _), ScanMembers(_, _)
ScanValue(str, i) ==
    IF i > Len(str) THEN 0
    ELSE IF str[i] \in {"t", "z"} THEN i + 1
    ELSE IF str[i] = "{" THEN ScanMembers(str, i + 1)
    ELSE 0

ScanMembers(str, i) ==
    IF i > Len(str) THEN 0
    ELSE IF IsSpace(str[i]) THEN ScanMembers(str, i + 1)
    ELSE IF str[i] = "}" THEN i + 1
    ELSE LET j == ScanValue(str, i)
         IN  IF j = 0 THEN 0 ELSE ScanMembers(str, j)

\* json.loads succeeds on a text that is one value between optional whitespace
JsonValid(str) ==
    LET body == Strip(str)
    IN  body # <<>> /\ ScanValue(body, 1) = Len(body) + 1

\* the value json.loads returns: the text without its insignificant
\* whitespace, and None for the literal null
JsonValue(str) ==
    LET canon == SelectSeq(str, LAMBDA c : ~IsSpace(c))
    IN  IF canon = <<"z">> THEN None ELSE canon

\* json.loads: ok = FALSE stands for JSONDecodeError
json_loads(str) ==
    IF JsonValid(str) THEN [ok |-> TRUE, val |-> JsonValue(str)]
    ELSE [ok |-> FALSE, val |-> None]

\* positions of a token at or after i, smallest first
NextAt(str, tok, i) ==
    IF \E j \in i..Len(str) : str[j] = tok
    THEN CHOOSE j \in i..Len(str) :
            str[j] = tok /\ \A k \in i..(j - 1) : str[k] # tok
    ELSE 0

RECURSIVE SkipSpace(_, _)
SkipSpace(str, i) ==
    IF i <= Len(str) /\ IsSpace(str[i]) THEN SkipSpace(str, i + 1) ELSE i

\* re.findall(r'```(?:json)?\s*([\s\S]*?)```', response, re.IGNORECASE):
\* the contents of the fenced blocks, in order of appearance; fences pair up
\* left to right and the lazy group stops at the next fence
RECURSIVE FencedFrom(_, _)
FencedFrom(str, i) ==
    LET open == NextAt(str, "F", i)
    IN  IF open = 0 THEN <<>>
        ELSE LET afterTag == IF open + 1 <= Len(str) /\ str[open + 1] = "J"
                             THEN open + 2 ELSE open + 1
                 start    == SkipSpace(str, afterTag)
                 close    == NextAt(str, "F", start)
             IN  IF close = 0 THEN <<>>
                 ELSE <<SubSeq(str, start, close - 1)>>
                        \o FencedFrom(str, close + 1)

FencedBlocks(str) == FencedFrom(str, 1)

\* re.findall(r'\{[\s\S]*\}', response): the greedy span from the first
\* opening brace to the last closing brace, when there is one
BraceSpans(str) ==
    LET first == NextAt(str, "{", 1)
        closes == {j \in 1..Len(str) : str[j] = "}"}
    IN  IF first = 0 \/ ~(\E j \in closes : j > first) THEN <<>>
        ELSE LET last == CHOOSE j \in closes : \A k \in closes : k <= j
             IN  <<SubSeq(str, first, last)>>

\* a candidate list that tries the loose brace span before the fenced blocks
JsonCandidates_BraceFirst(str) ==
    <<Strip(str)>> \o BraceSpans(str) \o FencedBlocks(str)

\* the candidate list of _parse_llm_response, in the order it is built
JsonCandidates(str) == <<Strip(str)>> \o FencedBlocks(str) \o BraceSpans(str)

\* the loop over the candidates: the first one that is non-empty after
\* strip and that json.loads accepts decides the result
RECURSIVE FirstParsed(_)
FirstParsed(cands) ==
    IF cands = <<>> THEN None
    ELSE LET candidate == Strip(Head(cands))
         IN  IF candidate # <<>> /\ json_loads(candidate).ok
             THEN json_loads(candidate).val
             ELSE FirstParsed(Tail(cands))

_parse_llm_response(str) ==
    IF str = <<>> THEN None ELSE FirstParsed(JsonCandidates(str))

----------------------------------------------------------------------------
(***************************************************************************)
(* The batch orchestrator: RAGAnythingCL.parse_documents_batch.            *)
(* The main thread walks the input in chunks; for each chunk it opens a    *)
(* ThreadPoolExecutor, submits one parse_document call per file, consumes  *)
(* the futures with as_completed and leaves the with-block.                *)
(***************************************************************************)
Files == {"a/doc.pdf", "b/doc.pdf", "doc.docx"}

MaxFiles == 3
MaxBatchSize == 3
MaxWorkers == 2

\* parse_document either returns the content list or raises
Outcomes == {"ok", "FileNotFoundError", "ParseError"}

\* what the caller holds before parse_documents_batch has returned
NotReturned == [visible |-> FALSE, value |-> {}]

\* a dict as the set of its <<key, value>> items; d[key] = value replaces the
\* item of an existing key
DictKeys(d) == {item[1] : item \in d}

\* an assignment that keeps the item of the last key only
DictSet_Last(d, key, value) == {<<key, value>>}

\* results[key] = value
DictSet(d, key, value) == {item \in d : item[1] # key} \cup {<<key, value>>}

NoFuture == [state |-> "NONE", result |-> None, exception |-> None]

\* the orchestrator's variables while another specification runs
BatchIdle ==
    /\ file_paths = <<>>
    /\ batch_size = 1
    /\ max_workers = 1
    /\ outcome = <<>>
    /\ batch_start = 0
    /\ next_submit = 0
    /\ future = <<>>
    /\ batch_of = <<>>
    /\ yielded = {}
    /\ results = {}
    /\ failed_files = <<>>
    /\ returned = NotReturned
    /\ bpc = "idle"
    /\ save_intermediate = FALSE
    /\ saved = {}
    /\ writing = {}

Range(seq) == {seq[k] : k \in 1..Len(seq)}

Min(a, b) == IF a < b THEN a ELSE b

\* the content list the parser produces for a file
ContentOf(file) == <<"content_list", file>>

\* parse_document(file_path): the value it returns or the exception it raises
ParseDocument(file) ==
    IF outcome[file] = "ok"
    THEN [state |-> "FINISHED", result |-> ContentOf(file), exception |-> None]
    ELSE [state |-> "FINISHED", result |-> None,
          exception |-> <<outcome[file]>>]

\* positions (1-based) of batch = file_paths[i:i + batch_size], with one file
\* too many
BatchPositions_Overlap(i) == (i + 1)..Min(i + batch_size + 1, Len(file_paths))

\* positions (1-based) of batch = file_paths[i:i + batch_size]
BatchPositions(i) == (i + 1)..Min(i + batch_size, Len(file_paths))

\* i // batch_size + 1, the chunk number of the log line
BatchNumber(i) == (i \div batch_size) + 1

\* the pool has at most max_workers threads: a queued call is taken only
\* while fewer than max_workers calls run
WorkerAvailable ==
    Cardinality({q \in DOMAIN future : future[q].state = "RUNNING"})
        < max_workers

\* Path(file_path).stem: the last component without its suffix
Stem(file) ==
    CASE file \in {"a/doc.pdf", "b/doc.pdf", "doc.docx"} -> "doc"
      [] file = "a/fig.pdf" -> "fig"

\* output_path / f"{base_name}_parsed.json" (every file of a call is saved
\* to the same output_dir)
OutputFile(file) == <<"output_dir", Stem(file), "_parsed.json">>

\* what an output file holds: the result of an input file, complete or not
\* (an open file that is not written yet), or a mix of two results
Holds(file, complete) == [of |-> file, complete |-> complete]
Interleaved == [of |-> "mixed", complete |-> FALSE]

\* if self.config.save_intermediate: self._save_results(...), reached when
\* the parser has returned
SavesResult(p) == save_intermediate /\ outcome[file_paths[p]] = "ok"

\* what the file of worker p can hold when the worker closes it
WrittenBy(p) ==
    {Holds(file_paths[p], TRUE)}
      \cup (IF \E q \in writing \ {p} :
                  OutputFile(file_paths[q]) = OutputFile(file_paths[p])
            THEN {Interleaved} ELSE {})

\* a loop that moves on as soon as one future of the chunk has been handled
AsCompletedExhausted_First ==
    \/ BatchPositions(batch_start) = {}
    \/ yielded \cap BatchPositions(batch_start) # {}

\* as_completed has yielded every future of future_to_path
AsCompletedExhausted == BatchPositions(batch_start) \subseteq yielded

\* a chunk loop that steps one position too far
NextBatchStart_Skip(i) == i + batch_size + 1

\* range(0, len(file_paths), batch_size): the start of the next chunk
NextBatchStart(i) == i + batch_size

\* an except branch that only logs
RecordFailure_Dropped(failed, file) == failed

\* failed_files.append(str(file_path))
RecordFailure(failed, file) == Append(failed, file)

\* a loop body that files every finished future under the successes
IsSuccess_Always(fut) == TRUE

\* future.result() returns (no exception was set)
IsSuccess(fut) == fut.exception = None

\* the state in which parse_documents_batch is entered, for a given
\* config.save_intermediate
BatchEntry(save, files) ==
    /\ save_intermediate = save
    /\ saved = {}
    /\ writing = {}
    /\ file_paths \in UNION {[1..n -> files] : n \in 0..MaxFiles}
    /\ batch_size \in 1..MaxBatchSize
    /\ max_workers \in 1..MaxWorkers
    /\ outcome \in [Range(file_paths) -> Outcomes]
    /\ batch_start = 0
    /\ next_submit = 0
    /\ future = [p \in 1..Len(file_paths) |-> NoFuture]
    /\ batch_of = [p \in 1..Len(file_paths) |-> {}]
    /\ yielded = {}
    /\ results = {}
    /\ failed_files = <<>>
    /\ returned = NotReturned
    /\ bpc = "loop"
    /\ ParseIdle
    /\ RenderIdle
    /\ ExtractIdle

\* parse_documents_batch with RAG_CL_SAVE_INTERMEDIATE=false: parse_document
\* does not call _save_results
BatchInit == BatchEntry(FALSE, Files)

\* for i in range(0, len(file_paths), batch_size): take the next chunk and
\* open the executor
StartBatch ==
    /\ bpc = "loop"
    /\ batch_start < Len(file_paths)
    /\ next_submit' = batch_start + 1
    /\ bpc' = "submit"
    /\ UNCHANGED <<file_paths, batch_size, max_workers, outcome, batch_start,
                   future, batch_of, yielded, results, failed_files, returned>>
    /\ UNCHANGED saveVars
    /\ UNCHANGED parseVars
    /\ UNCHANGED extractVars
    /\ UNCHANGED renderVars

\* executor.submit(self.parse_document, file_path, ...) for the next file of
\* the chunk; after the last one the comprehension is complete
Submit ==
    /\ bpc = "submit"
    /\ IF next_submit \in BatchPositions(batch_start)
       THEN /\ future' = [future EXCEPT ![next_submit].state = "PENDING"]
            /\ batch_of' = [batch_of EXCEPT
                              ![next_submit] = @ \cup {BatchNumber(batch_start)}]
            /\ next_submit' = next_submit + 1
            /\ bpc' = IF next_submit + 1 \in BatchPositions(batch_start)
                      THEN "submit" ELSE "collect"
       ELSE /\ bpc' = "collect"
            /\ UNCHANGED <<future, batch_of, next_submit>>
    /\ UNCHANGED <<file_paths, batch_size, max_workers, outcome, batch_start,
                   yielded, results, failed_files, returned>>
    /\ UNCHANGED saveVars
    /\ UNCHANGED parseVars
    /\ UNCHANGED extractVars
    /\ UNCHANGED renderVars

\* a pool thread takes the oldest queued call and starts parse_document
WorkerStart(p) ==
    /\ future[p].state = "PENDING"
    /\ \A q \in 1..(p - 1) : future[q].state # "PENDING"
    /\ WorkerAvailable
    /\ future' = [future EXCEPT ![p].state = "RUNNING"]
    /\ UNCHANGED <<file_paths, batch_size, max_workers, outcome, batch_start,
                   next_submit, batch_of, yielded, results, failed_files,
                   returned, bpc>>
    /\ UNCHANGED saveVars
    /\ UNCHANGED parseVars
    /\ UNCHANGED extractVars
    /\ UNCHANGED renderVars

\* the parser has returned and saving is configured: _save_results opens
\* output_dir / f"{file_path.stem}_parsed.json" with mode 'w', which creates
\* the file or cuts it to length 0
WorkerOpen(p) ==
    /\ future[p].state = "RUNNING"
    /\ SavesResult(p)
    /\ p \notin writing
    /\ writing' = writing \cup {p}
    /\ saved' = DictSet(saved, OutputFile(file_paths[p]),
                        Holds(file_paths[p], FALSE))
    /\ UNCHANGED <<file_paths, batch_size, max_workers, outcome, batch_start,
                   next_submit, future, batch_of, yielded, results,
                   failed_files, returned, bpc, save_intermediate>>
    /\ UNCHANGED parseVars
    /\ UNCHANGED extractVars
    /\ UNCHANGED renderVars

\* parse_document returns or raises; the future is finished.  When it saved,
\* json.dump has written and the with-block closes the file: the file holds
\* this worker's result, unless another worker has the same file open, in
\* which case it may as well hold a mix of both
WorkerFinish(p) ==
    /\ future[p].state = "RUNNING"
    /\ SavesResult(p) => p \in writing
    /\ future' = [future EXCEPT ![p] = ParseDocument(file_paths[p])]
    /\ IF p \in writing
       THEN /\ writing' = writing \ {p}
            /\ \E content \in WrittenBy(p) :
                  saved' = DictSet(saved, OutputFile(file_paths[p]), content)
       ELSE UNCHANGED <<saved, writing>>
    /\ UNCHANGED save_intermediate
    /\ UNCHANGED <<file_paths, batch_size, max_workers, outcome, batch_start,
                   next_submit, batch_of, yielded, results, failed_files,
                   returned, bpc>>
    /\ UNCHANGED parseVars
    /\ UNCHANGED extractVars
    /\ UNCHANGED renderVars

\* one iteration of `for future in as_completed(future_to_path)`: a finished
\* future is yielded and the body files it under results or failed_files
Collect(p) ==
    /\ bpc = "collect"
    /\ p \in BatchPositions(batch_start) \ yielded
    /\ future[p].state = "FINISHED"
    /\ yielded' = yielded \cup {p}
    /\ IF IsSuccess(future[p])
       THEN /\ results' = DictSet(results, file_paths[p], future[p].result)
            /\ UNCHANGED failed_files
       ELSE /\ failed_files' = RecordFailure(failed_files, file_paths[p])
            /\ UNCHANGED results
    /\ UNCHANGED <<file_paths, batch_size, max_workers, outcome, batch_start,
                   next_submit, future, batch_of, returned, bpc>>
    /\ UNCHANGED saveVars
    /\ UNCHANGED parseVars
    /\ UNCHANGED extractVars
    /\ UNCHANGED renderVars

\* the loop over as_completed ends and the with-block is left (the executor's
\* shutdown returns at once: every yielded future is finished); the chunk
\* loop advances by batch_size
EndBatch ==
    /\ bpc = "collect"
    /\ AsCompletedExhausted
    /\ batch_start' = NextBatchStart(batch_start)
    /\ bpc' = "loop"
    /\ UNCHANGED <<file_paths, batch_size, max_workers, outcome, next_submit,
                   future, batch_of, yielded, results, failed_files, returned>>
    /\ UNCHANGED saveVars
    /\ UNCHANGED parseVars
    /\ UNCHANGED extractVars
    /\ UNCHANGED renderVars

\* the chunk loop is over: the counts are logged and `return results`
ReturnResults ==
    /\ bpc = "loop"
    /\ batch_start >= Len(file_paths)
    /\ returned' = [visible |-> TRUE, value |-> results]
    /\ bpc' = "done"
    /\ UNCHANGED <<file_paths, batch_size, max_workers, outcome, batch_start,
                   next_submit, future, batch_of, yielded, results,
                   failed_files>>
    /\ UNCHANGED saveVars
    /\ UNCHANGED parseVars
    /\ UNCHANGED extractVars
    /\ UNCHANGED renderVars

BatchNext ==
    \/ StartBatch
    \/ Submit
    \/ \E p \in DOMAIN future : WorkerStart(p)
    \/ \E p \in DOMAIN future : WorkerFinish(p)
    \/ \E p \in DOMAIN future : Collect(p)
    \/ EndBatch
    \/ ReturnResults

SpecBatch == BatchInit /\ [][BatchNext]_vars

\* parse_documents_batch with result saving (the default of the
\* configuration): parse_document calls _save_results
SaveInit == BatchEntry(TRUE, Files \cup {"a/fig.pdf"})

SaveNext ==
    \/ BatchNext
    \/ \E p \in DOMAIN future : WorkerOpen(p)

SpecSave == SaveInit /\ [][SaveNext]_vars

\* a call that passes each file once
FairInit ==
    /\ BatchInit
    /\ \A p, q \in DOMAIN file_paths : file_paths[p] = file_paths[q] => p = q

\* the pool threads and the main thread keep running, and every parse call
\* terminates
SpecBatchFair ==
    /\ FairInit
    /\ [][BatchNext]_vars
    /\ WF_vars(BatchNext)

----------------------------------------------------------------------------
(***************************************************************************)
(* The extraction pipeline: data.                                          *)
(*                                                                         *)
(* A text is a sequence of pieces [src, n]: n characters that come from    *)
(* the block at input position src; src = -1 is a run of blanks and        *)
(* src = -2 the newline that merging puts between two texts.               *)
(***************************************************************************)
MaxBlocks == 2

MinTextLen == 10
MergeThreshold == 200

Piece(src, n) == [src |-> src, n |-> n]
Blank(n) == Piece(-1, n)
Newline == Piece(-2, 1)
IsBlank(piece) == piece.src < 0

RECURSIVE TextLen(_)
TextLen(text) ==
    IF text = <<>> THEN 0 ELSE Head(text).n + TextLen(Tail(text))

\* str.strip() on a text
RECURSIVE TextLStrip(_)
TextLStrip(text) ==
    IF text # <<>> /\ IsBlank(Head(text)) THEN TextLStrip(Tail(text)) ELSE text

RECURSIVE TextRStrip(_)
TextRStrip(text) ==
    IF text # <<>> /\ IsBlank(text[Len(text)])
    THEN TextRStrip(SubSeq(text, 1, Len(text) - 1))
    ELSE text

TextStrip(text) == TextRStrip(TextLStrip(text))

\* a table cell: n characters of the cell at (row, col) of the input table
Cell(row, col, n) == [row |-> row, col |-> col, n |-> n]

\* how far a block_index that the input carries is off the position
CarriedOffset == 5

\* the shapes of the elements of content_list
BlockShapes == {"nondict", "short", "mid", "long", "badtext",
                "table", "emptytable", "image"}

\* the element of a given shape at 0-based input position i; block_index -1
\* and merged_blocks <<>> stand for an absent key (the defaults of .get).
\* Long texts and tables with a body come with a block_index of their own,
\* which is not their position.  has_text = FALSE: the dict has no 'text'
\* key (its text reads as '' through .get).
BlockAt(shape, i) ==
    [isdict        |-> shape # "nondict",
     type          |-> CASE shape \in {"short", "mid", "long", "badtext",
                                       "blank", "notext"} -> "text"
                         [] shape \in {"table", "emptytable"} -> "table"
                         [] shape = "image" -> "image"
                         [] OTHER -> "unknown",
     text_is_str   |-> shape # "badtext",
     has_text      |-> shape # "notext",
     text          |-> CASE shape = "short" -> <<Blank(3), Piece(i, 5), Blank(3)>>
                         [] shape = "mid"   -> <<Piece(i, 50)>>
                         [] shape = "long"  -> <<Piece(i, 250)>>
                         [] shape = "blank" -> <<Blank(4)>>
                         [] OTHER -> <<>>,
     table_body    |-> IF shape = "table" THEN <<<<Cell(1, 1, 4)>>>> ELSE <<>>,
     table_caption |-> IF shape \in {"table", "emptytable"}
                       THEN <<Piece(i, 20)>> ELSE <<>>,
     page_idx      |-> i + 1,
     block_index   |-> IF shape \in {"long", "table"} THEN i + CarriedOffset
                       ELSE -1,
     merged_blocks |-> <<>>]

PreviewBlocks == 10

\* an input one block longer than the preview of the document analysis:
\* tables without body around an element that is no dict, then a text
LongList ==
    [k \in 1..(PreviewBlocks + 1) |->
        BlockAt(CASE k = 3 -> "nondict"
                  [] k = PreviewBlocks + 1 -> "mid"
                  [] OTHER -> "emptytable", k - 1)]

\* an input in which positions and text blocks do not count alike: an
\* element that is no dict, a long text and a short text
MixedList ==
    <<BlockAt("nondict", 0), BlockAt("long", 1), BlockAt("short", 2)>>

ContentLists ==
    UNION {{[k \in 1..n |-> BlockAt(shapes[k], k - 1)] :
                shapes \in [1..n -> BlockShapes]} : n \in 0..MaxBlocks}
      \cup {LongList, MixedList}

\* values that json.loads can give back to the pipeline
PyNone == [kind |-> "none", key_present |-> FALSE,
           items |-> <<>>, items_null |-> FALSE]
PyScalar == [kind |-> "scalar", key_present |-> FALSE,
             items |-> <<>>, items_null |-> FALSE]
PyDict(present, items) == [kind |-> "dict", key_present |-> present,
                           items |-> items, items_null |-> FALSE]
PyDictNull == [kind |-> "dict", key_present |-> TRUE,
               items |-> <<>>, items_null |-> TRUE]
EmptyDict == PyDict(FALSE, <<>>)

\* an entity record as the service lists it, before the pipeline stamps it
ServiceEntity(name) ==
    [name |-> name, source_block |-> -1, source_page |-> -1,
     source_type |-> "none"]

NameCap == 20

\* what the service can answer to a text or table request: a record without
\* the entity key, a record with one entity, a record with one entity more
\* than the relationship request names (the second of them unnamed), or a
\* bare JSON scalar
UnitPayloads ==
    {PyDict(FALSE, <<>>),
     PyDict(TRUE, <<ServiceEntity("A")>>),
     PyDict(TRUE, [k \in 1..(NameCap + 1) |->
                     ServiceEntity(IF k = 2 THEN "" ELSE ToString(k))]),
     PyScalar}

\* what the service can answer to the relationship request: a list with one
\* relationship, or "relationships": null
RelPayloads ==
    {PyDict(TRUE, <<[from |-> "A", to |-> "B"]>>), PyDictNull}

\* the answer to the document-analysis request: a record with document_info
DocPayload == PyDict(TRUE, <<>>)

\* the ways a call can go wrong: the API raises, the completion is empty, or
\* the completion holds no parseable JSON
Faults == {"raise", "empty", "garbage"}

\* the completion text for a payload: a record comes as prose around a fenced
\* json block, a scalar as the bare literal
CompletionText(payload) ==
    IF payload.kind = "dict"
    THEN <<"w", "s", "F", "J", "s", "{", "t", "}", "s", "F">>
    ELSE <<"t">>

\* _async_openai_call: the completion text, or None (<<>>) when the client
\* raises
_async_openai_call(fault, payload) ==
    CASE fault = "raise"   -> None
      [] fault = "empty"   -> <<>>
      [] fault = "garbage" -> <<"w", "s", "w">>
      [] OTHER             -> CompletionText(payload)

\* _call_llm_for_extraction: the recovered value of the completion, or None
_call_llm_for_extraction(fault, payload) ==
    LET completion == _async_openai_call(fault, payload)
    IN  IF completion = <<>> THEN PyNone
        ELSE LET recovered == _parse_llm_response(completion)
             IN  IF recovered = None THEN PyNone
                 ELSE IF Head(recovered) = "{" THEN payload
                 ELSE PyScalar

\* a classification that keeps a block_index the input carries
AssignIndex_KeepCarried(cl) ==
    [k \in 1..Len(cl) |->
        IF cl[k].isdict /\ cl[k].block_index = -1
        THEN [cl[k] EXCEPT !.block_index = k - 1] ELSE cl[k]]

\* classification loop: every dict element gets block_index = its position
AssignIndex(cl) ==
    [k \in 1..Len(cl) |->
        IF cl[k].isdict THEN [cl[k] EXCEPT !.block_index = k - 1] ELSE cl[k]]

BlocksOfType(cl, type) ==
    SelectSeq(cl, LAMBDA b : b.isdict /\ b.type = type)

\* an accumulator that is the input block itself and no copy of it
StartUnit_InPlace(block, k) == [unit |-> block, alias |-> k]

\* current_block = block.copy(): the accumulator is a new dict with the
\* fields of the k-th input block; alias is the position of the input block
\* that the accumulator is the same object as (0: none)
StartUnit(block, k) == [unit |-> block, alias |-> 0]

\* _merge_text_blocks: the loop over text_blocks from index k on, with the
\* accumulator current (<<>> or one accumulator) and the units emitted so
\* far; blocks is the caller's list as the loop has left it so far (what is
\* written into an accumulator that is an input block shows there);
\* ok = FALSE when the loop raises: .strip() is called on a text that is
\* not a string, or current_block['text'] += ... finds no 'text' key
RECURSIVE MergeFrom(_, _, _, _)
MergeFrom(blocks, k, current, merged) ==
    IF k > Len(blocks)
    THEN [ok |-> TRUE, exc |-> "", input |-> blocks,
          units |-> merged \o [j \in 1..Len(current) |-> current[j].unit]]
    ELSE
      LET block == blocks[k]
      IN  IF ~block.text_is_str
          THEN [ok |-> FALSE, exc |-> "AttributeError", input |-> blocks,
                units |-> <<>>]
          ELSE
            LET text == TextStrip(block.text)
            IN  IF TextLen(text) < MergeThreshold /\ current # <<>>
                THEN IF ~current[1].unit.has_text
                     THEN [ok |-> FALSE, exc |-> "KeyError",
                           input |-> blocks, units |-> <<>>]
                     ELSE
                     LET grown == [current[1].unit EXCEPT
                            !.text = @ \o <<Newline>> \o text,
                            !.merged_blocks = Append(@, block.block_index)]
                         alias == current[1].alias
                     IN  MergeFrom(IF alias = 0 THEN blocks
                                   ELSE [blocks EXCEPT ![alias] = grown],
                                   k + 1,
                                   <<[unit |-> grown, alias |-> alias]>>,
                                   merged)
                ELSE MergeFrom(blocks, k + 1, <<StartUnit(block, k)>>,
                        merged \o [j \in 1..Len(current) |-> current[j].unit])

\* a merge that lets every block stand for itself
_merge_text_blocks_Apart(blocks) ==
    [ok |-> \A k \in 1..Len(blocks) : blocks[k].text_is_str,
     exc |-> "AttributeError", input |-> blocks, units |-> blocks]

\* the caller's content_list after a callee has worked on blocks of it: the
\* blocks are the dicts of the list, found by their block_index
WriteBack(cl, blocks) ==
    [i \in 1..Len(cl) |->
        IF \E k \in 1..Len(blocks) : blocks[k].block_index = i - 1
        THEN blocks[CHOOSE k \in 1..Len(blocks) : blocks[k].block_index = i - 1]
        ELSE cl[i]]

_merge_text_blocks(blocks) == MergeFrom(blocks, 1, <<>>, <<>>)

\* a filter that lets every unit through
TextUnitIsSent_Always(unit) == TRUE

\* a merged text unit is sent to the service unless its trimmed text is
\* shorter than the minimum
TextUnitIsSent(unit) == TextLen(TextStrip(unit.text)) >= MinTextLen

\* a table block is sent unless its body is empty
TableIsSent(block) == block.table_body # <<>>

\* for entity in ...: entity['source_block'] = ...; the stamped entity list
StampEntities(items, block, type) ==
    [k \in 1..Len(items) |->
        [items[k] EXCEPT !.source_block = block.block_index,
                         !.source_page = block.page_idx,
                         !.source_type = type]]

----------------------------------------------------------------------------
(***************************************************************************)
(* The extraction pipeline: EntityExtractor (ragcl/entity_extractor.py).   *)
(* One run of extract_entities_from_content_list, and extract_entities_sync *)
(* around it.                                                              *)
(***************************************************************************)
\* the units of work of an input for which the service is asked: the input
\* positions of the first block of every merged text unit that is sent and
\* of every table that is sent
UnitPositions(cl) ==
    LET indexed == AssignIndex(cl)
        merge   == _merge_text_blocks(BlocksOfType(indexed, "text"))
        texts   == SelectSeq(merge.units, TextUnitIsSent)
        tables  == SelectSeq(BlocksOfType(indexed, "table"), TableIsSent)
    IN  IF ~merge.ok THEN {}
        ELSE {texts[k].block_index : k \in 1..Len(texts)}
                \cup {tables[k].block_index : k \in 1..Len(tables)}

\* the answers the service holds ready for the units of an input
ServiceBehaviours(cl, relations) ==
    [unit : [UnitPositions(cl) -> UnitPayloads],
     rel  : IF relations THEN RelPayloads
            ELSE {PyDict(TRUE, <<[from |-> "A", to |-> "B"]>>)}]

\* seq[:n]
Prefix(seq, n) == SubSeq(seq, 1, Min(n, Len(seq)))

\* text[:n] on a text: its first n characters
RECURSIVE TextPrefix(_, _)
TextPrefix(text, n) ==
    IF text = <<>> \/ n <= 0 THEN <<>>
    ELSE IF Head(text).n <= n
         THEN <<Head(text)>> \o TextPrefix(Tail(text), n - Head(text).n)
         ELSE <<[Head(text) EXCEPT !.n = n]>>

\* the content of the text request: text_content = block.get('text').strip()
TextPrompt(unit) == TextStrip(unit.text)

RowCap == 10
ColCap == 10
CellCap == 50

\* a renderer that keeps every column
_format_table_for_llm_AllColumns(body) ==
    [r \in 1..Min(RowCap, Len(body)) |->
        [c \in 1..Len(body[r]) |->
            [body[r][c] EXCEPT !.n = Min(CellCap, @)]]]

\* _format_table_for_llm: table_body[:10], row[:10], str(cell)[:50]; the
\* rendered text as its rows of cells
_format_table_for_llm(body) ==
    [r \in 1..Min(RowCap, Len(body)) |->
        [c \in 1..Min(ColCap, Len(body[r])) |->
            [body[r][c] EXCEPT !.n = Min(CellCap, @)]]]

PreviewChars == 100

\* str(block.get('text', block.get('table_caption', ''))): blocks of the
\* parser carry 'text' when they are text blocks (str() of a text that is no
\* string gives its digits), tables carry their caption
PreviewText(block) ==
    IF block.type = "text"
    THEN IF block.text_is_str THEN block.text
         ELSE <<Piece(block.page_idx - 1, 3)>>
    ELSE block.table_caption

\* a preview taken from the merged units instead of the input
StructureInfo_Merged(cl) ==
    LET dicts == processed_blocks
    IN  [k \in 1..Len(dicts) |->
            [type         |-> dicts[k].type,
             text_preview |-> TextPrefix(PreviewText(dicts[k]), PreviewChars),
             page         |-> dicts[k].page_idx]]

\* structure_info of _analyze_document_structure: type, text preview and
\* page of the dict elements among content_list[:10]
StructureInfo(cl) ==
    LET dicts == SelectSeq(Prefix(cl, PreviewBlocks), LAMBDA b : b.isdict)
    IN  [k \in 1..Len(dicts) |->
            [type         |-> dicts[k].type,
             text_preview |-> TextPrefix(PreviewText(dicts[k]), PreviewChars),
             page         |-> dicts[k].page_idx]]

\* a name list that takes every entity
EntityNames_All(entities) ==
    [k \in 1..Len(entities) |-> entities[k].name]

\* entity_names = [entity.get('name', '') for entity in entities[:20]]
EntityNames(entities) ==
    [k \in 1..Min(NameCap, Len(entities)) |-> entities[k].name]

\* an await that leaves the finished call among the outstanding ones
Returned_Lingering(outstanding) == outstanding

\* `await` has returned or raised: the call is no longer outstanding
Returned(outstanding) == Tail(outstanding)

\* one entry of the call log; slept records that asyncio.sleep ran after the
\* call came back
Call(kind, block, prompt) ==
    [kind |-> kind, block |-> block, failed |-> FALSE, prompt |-> prompt,
     slept |-> FALSE]

\* the log with the outcome of the outstanding (last) call filled in
Answered(log, fault) ==
    [log EXCEPT ![Len(log)].failed = (fault # "none")]

\* await asyncio.sleep(0.1) after the last call of the log
Slept(log) == [log EXCEPT ![Len(log)].slept = TRUE]

\* a statistics block that counts processed blocks where entities are meant
Statistics_CountsBlocks(ents, rels, texts, tables) ==
    [keys |-> {"total_entities", "total_relationships",
               "text_blocks_processed", "table_blocks_processed"},
     total_entities         |-> Len(texts) + Len(tables),
     total_relationships    |-> Len(rels),
     text_blocks_processed  |-> Len(texts),
     table_blocks_processed |-> Len(tables),
     error                  |-> ""]

\* a statistics block that counts the units that are sent to the service
Statistics_CountsUnits(ents, rels, texts, tables) ==
    [keys |-> {"total_entities", "total_relationships",
               "text_blocks_processed", "table_blocks_processed"},
     total_entities         |-> Len(ents),
     total_relationships    |-> Len(rels),
     text_blocks_processed  |->
        Len(SelectSeq(_merge_text_blocks(texts).units, TextUnitIsSent)),
     table_blocks_processed |-> Len(SelectSeq(tables, TableIsSent)),
     error                  |-> ""]

\* the statistics of a normal result (keys: the fields that are present)
Statistics(ents, rels, texts, tables) ==
    [keys |-> {"total_entities", "total_relationships",
               "text_blocks_processed", "table_blocks_processed"},
     total_entities         |-> Len(ents),
     total_relationships    |-> Len(rels),
     text_blocks_processed  |-> Len(texts),
     table_blocks_processed |-> Len(tables),
     error                  |-> ""]

\* 'statistics': {'error': str(e)}
ErrorStatistics(exc) ==
    [keys |-> {"error"},
     total_entities         |-> -1,
     total_relationships    |-> -1,
     text_blocks_processed  |-> -1,
     table_blocks_processed |-> -1,
     error                  |-> exc]

ExtractionResult(ents, rels, analysis, stats) ==
    [kind |-> "result", entities |-> ents, relationships |-> rels,
     document_analysis |-> analysis, statistics |-> stats]

Raised(exc) == [kind |-> "raised", exception |-> exc]

\* an except branch that hands back what the run had gathered
ErrorResult_Partial(exc) ==
    ExtractionResult(all_entities, all_relationships, doc_analysis,
                     ErrorStatistics(exc))

\* the except branch of extract_entities_sync
ErrorResult(exc) ==
    ExtractionResult(<<>>, <<>>, EmptyDict, ErrorStatistics(exc))


OthersIdle == UNCHANGED <<parseVars, batchVars, renderVars>>

\* a loop that takes the first unit again
CurrentTextUnit_First == processed_blocks[1]

\* for block in processed_blocks
CurrentTextUnit == processed_blocks[unit_idx]
CurrentTable == table_blocks[unit_idx]

\* what a recovered value adds to the entity list: the stamped items of its
\* entity key, when it is a record that has the key
EntitiesFrom(value, block, type) ==
    IF value.kind = "dict" /\ value.key_present
    THEN StampEntities(value.items, block, type)
    ELSE <<>>

\* an extend that puts the new items in front
Extend_Front(list, items) == items \o list

\* all_entities.extend(items)
Extend(list, items) == list \o items

\* a relationship gate that does not look at the flag
ShouldExtractRelations_NoFlag == Len(all_entities) > 1

\* a relationship gate that lets a single entity through
ShouldExtractRelations_One == extract_relations /\ Len(all_entities) > 0

\* if extract_relations and len(all_entities) > 1
ShouldExtractRelations == extract_relations /\ Len(all_entities) > 1

ExtractInit ==
    /\ impl = "basic"
    /\ content_list \in ContentLists
    /\ extract_relations \in BOOLEAN
    /\ svc \in ServiceBehaviours(content_list, extract_relations)
    /\ text_blocks = <<>>
    /\ table_blocks = <<>>
    /\ processed_blocks = <<>>
    /\ all_entities = <<>>
    /\ all_relationships = <<>>
    /\ doc_analysis = EmptyDict
    /\ epc = "start"
    /\ unit_idx = 0
    /\ in_flight = <<>>
    /\ calls = <<>>
    /\ result = NoResult
    /\ sync_result = NoResult
    /\ ParseIdle
    /\ RenderIdle
    /\ BatchIdle

\* the classification loop: block_index is written into every dict element
\* and the text and table blocks are collected in input order
Classify ==
    /\ impl = "basic"
    /\ epc = "start"
    /\ content_list' = AssignIndex(content_list)
    /\ text_blocks' = BlocksOfType(content_list', "text")
    /\ table_blocks' = BlocksOfType(content_list', "table")
    /\ epc' = "text_begin"
    /\ UNCHANGED <<impl, extract_relations, svc, processed_blocks, accVars,
                   unit_idx, callVars, outVars>>
    /\ OthersIdle

\* if text_blocks: _extract_text_entities starts by merging; .strip() on a
\* text that is not a string raises out of the coroutine.  The blocks handed
\* to the merge are the dicts of content_list.
TextBegin ==
    /\ impl = "basic"
    /\ epc = "text_begin"
    /\ IF text_blocks = <<>>
       THEN /\ epc' = "table_begin"
            /\ UNCHANGED <<processed_blocks, unit_idx, result>>
            /\ UNCHANGED <<content_list, text_blocks>>
       ELSE LET merge == _merge_text_blocks(text_blocks)
            IN  /\ text_blocks' = merge.input
                /\ content_list' = WriteBack(content_list, merge.input)
                /\ IF merge.ok
                   THEN /\ processed_blocks' = merge.units
                        /\ unit_idx' = 1
                        /\ epc' = "text_loop"
                        /\ UNCHANGED result
                   ELSE /\ result' = Raised(merge.exc)
                        /\ epc' = "raised"
                        /\ UNCHANGED <<processed_blocks, unit_idx>>
    /\ UNCHANGED <<impl, extract_relations, svc, table_blocks, accVars,
                   callVars, sync_result>>
    /\ OthersIdle

\* the loop over processed_blocks is over
TextLoopEnd ==
    /\ impl = "basic"
    /\ epc = "text_loop"
    /\ unit_idx > Len(processed_blocks)
    /\ epc' = "table_begin"
    /\ UNCHANGED <<inputVars, classVars, accVars, unit_idx, callVars, outVars>>
    /\ OthersIdle

\* if len(text_content) < 10: continue
TextSkip ==
    /\ impl = "basic"
    /\ epc = "text_loop"
    /\ unit_idx <= Len(processed_blocks)
    /\ ~TextUnitIsSent(CurrentTextUnit)
    /\ unit_idx' = unit_idx + 1
    /\ UNCHANGED <<inputVars, classVars, accVars, epc, callVars, outVars>>
    /\ OthersIdle

\* await self._call_llm_for_extraction(text prompt): the request is issued
TextIssue ==
    /\ impl = "basic"
    /\ epc = "text_loop"
    /\ unit_idx <= Len(processed_blocks)
    /\ TextUnitIsSent(CurrentTextUnit)
    /\ in_flight' = Append(in_flight, Call("text", CurrentTextUnit.block_index,
                            TextPrompt(CurrentTextUnit)))
    /\ calls' = Append(calls, Call("text", CurrentTextUnit.block_index,
                                   TextPrompt(CurrentTextUnit)))
    /\ epc' = "text_await"
    /\ UNCHANGED <<inputVars, classVars, accVars, unit_idx, outVars>>
    /\ OthersIdle

\* the call comes back and the body of the try block runs: a record with
\* 'entities' is stamped and appended; a bare scalar makes the membership
\* test raise TypeError, which the except branch swallows (no sleep)
TextAnswer(fault) ==
    /\ impl = "basic"
    /\ epc = "text_await"
    /\ LET value == _call_llm_for_extraction(
                        fault, svc.unit[CurrentTextUnit.block_index])
       IN  IF value.kind = "scalar"
           THEN /\ unit_idx' = unit_idx + 1
                /\ epc' = "text_loop"
                /\ UNCHANGED all_entities
           ELSE /\ all_entities' = Extend(all_entities,
                        EntitiesFrom(value, CurrentTextUnit, "text"))
                /\ epc' = "text_sleep"
                /\ UNCHANGED unit_idx
    /\ in_flight' = Returned(in_flight)
    /\ calls' = Answered(calls, fault)
    /\ UNCHANGED <<inputVars, classVars, all_relationships, doc_analysis,
                   outVars>>
    /\ OthersIdle

\* await asyncio.sleep(0.1)
TextSleep ==
    /\ impl = "basic"
    /\ epc = "text_sleep"
    /\ calls' = Slept(calls)
    /\ unit_idx' = unit_idx + 1
    /\ epc' = "text_loop"
    /\ UNCHANGED <<inputVars, classVars, accVars, in_flight, outVars>>
    /\ OthersIdle

\* if table_blocks: _extract_table_entities
TableBegin ==
    /\ impl = "basic"
    /\ epc = "table_begin"
    /\ IF table_blocks = <<>>
       THEN /\ epc' = "doc_issue"
            /\ UNCHANGED unit_idx
       ELSE /\ epc' = "table_loop"
            /\ unit_idx' = 1
    /\ UNCHANGED <<inputVars, classVars, accVars, callVars, outVars>>
    /\ OthersIdle

TableLoopEnd ==
    /\ impl = "basic"
    /\ epc = "table_loop"
    /\ unit_idx > Len(table_blocks)
    /\ epc' = "doc_issue"
    /\ UNCHANGED <<inputVars, classVars, accVars, unit_idx, callVars, outVars>>
    /\ OthersIdle

\* if not table_body: continue
TableSkip ==
    /\ impl = "basic"
    /\ epc = "table_loop"
    /\ unit_idx <= Len(table_blocks)
    /\ ~TableIsSent(CurrentTable)
    /\ unit_idx' = unit_idx + 1
    /\ UNCHANGED <<inputVars, classVars, accVars, epc, callVars, outVars>>
    /\ OthersIdle

TableIssue ==
    /\ impl = "basic"
    /\ epc = "table_loop"
    /\ unit_idx <= Len(table_blocks)
    /\ TableIsSent(CurrentTable)
    /\ in_flight' = Append(in_flight, Call("table", CurrentTable.block_index,
                            _format_table_for_llm(CurrentTable.table_body)))
    /\ calls' = Append(calls,
                       Call("table", CurrentTable.block_index,
                            _format_table_for_llm(CurrentTable.table_body)))
    /\ epc' = "table_await"
    /\ UNCHANGED <<inputVars, classVars, accVars, unit_idx, outVars>>
    /\ OthersIdle

\* as TextAnswer, with the key 'extracted_entities'
TableAnswer(fault) ==
    /\ impl = "basic"
    /\ epc = "table_await"
    /\ LET value == _call_llm_for_extraction(
                        fault, svc.unit[CurrentTable.block_index])
       IN  IF value.kind = "scalar"
           THEN /\ unit_idx' = unit_idx + 1
                /\ epc' = "table_loop"
                /\ UNCHANGED all_entities
           ELSE /\ all_entities' = Extend(all_entities,
                        EntitiesFrom(value, CurrentTable, "table"))
                /\ epc' = "table_sleep"
                /\ UNCHANGED unit_idx
    /\ in_flight' = Returned(in_flight)
    /\ calls' = Answered(calls, fault)
    /\ UNCHANGED <<inputVars, classVars, all_relationships, doc_analysis,
                   outVars>>
    /\ OthersIdle

TableSleep ==
    /\ impl = "basic"
    /\ epc = "table_sleep"
    /\ calls' = Slept(calls)
    /\ unit_idx' = unit_idx + 1
    /\ epc' = "table_loop"
    /\ UNCHANGED <<inputVars, classVars, accVars, in_flight, outVars>>
    /\ OthersIdle

\* _analyze_document_structure: the preview of content_list[:10] is built
\* and the request is issued
DocIssue ==
    /\ impl = "basic"
    /\ epc = "doc_issue"
    /\ in_flight' = Append(in_flight, Call("doc", -1, StructureInfo(content_list)))
    /\ calls' = Append(calls, Call("doc", -1, StructureInfo(content_list)))
    /\ epc' = "doc_await"
    /\ UNCHANGED <<inputVars, classVars, accVars, unit_idx, outVars>>
    /\ OthersIdle

\* return doc_analysis or {}
DocAnswer(fault) ==
    /\ impl = "basic"
    /\ epc = "doc_await"
    /\ LET value == _call_llm_for_extraction(fault, DocPayload)
       IN  doc_analysis' = IF value.kind = "none" THEN EmptyDict ELSE value
    /\ in_flight' = Returned(in_flight)
    /\ calls' = Answered(calls, fault)
    /\ epc' = "rel_begin"
    /\ UNCHANGED <<inputVars, classVars, all_entities, all_relationships,
                   unit_idx, outVars>>
    /\ OthersIdle

\* the relationship pass is not wanted or there are fewer than 2 entities
RelSkip ==
    /\ impl = "basic"
    /\ epc = "rel_begin"
    /\ ~ShouldExtractRelations
    /\ epc' = "return"
    /\ UNCHANGED <<inputVars, classVars, accVars, unit_idx, callVars, outVars>>
    /\ OthersIdle

\* _extract_entity_relationships issues its single request
RelIssue ==
    /\ impl = "basic"
    /\ epc = "rel_begin"
    /\ ShouldExtractRelations
    /\ in_flight' = Append(in_flight, Call("rel", -1, EntityNames(all_entities)))
    /\ calls' = Append(calls, Call("rel", -1, EntityNames(all_entities)))
    /\ epc' = "rel_await"
    /\ UNCHANGED <<inputVars, classVars, accVars, unit_idx, outVars>>
    /\ OthersIdle

\* relationships_result.get('relationships', []) if relationships_result
\* else []; .get on a scalar raises and is swallowed; the list is handed to
\* all_relationships.extend, which raises TypeError out of the coroutine
\* when the service sent "relationships": null
RelAnswer(fault) ==
    /\ impl = "basic"
    /\ epc = "rel_await"
    /\ LET value == _call_llm_for_extraction(fault, svc.rel)
       IN  IF value.kind = "dict" /\ value.key_present /\ value.items_null
           THEN /\ result' = Raised("TypeError")
                /\ epc' = "raised"
                /\ UNCHANGED all_relationships
           ELSE /\ all_relationships' = all_relationships \o
                      (IF value.kind = "dict" /\ value.key_present
                       THEN value.items ELSE <<>>)
                /\ epc' = "return"
                /\ UNCHANGED result
    /\ in_flight' = Returned(in_flight)
    /\ calls' = Answered(calls, fault)
    /\ UNCHANGED <<inputVars, classVars, all_entities, doc_analysis, unit_idx,
                   sync_result>>
    /\ OthersIdle

\* the return statement: the result with its statistics
ReturnResult ==
    /\ impl = "basic"
    /\ epc = "return"
    /\ result' = ExtractionResult(all_entities, all_relationships,
                    doc_analysis,
                    Statistics(all_entities, all_relationships,
                               text_blocks, table_blocks))
    /\ epc' = "returned"
    /\ UNCHANGED <<inputVars, classVars, accVars, unit_idx, callVars,
                   sync_result>>
    /\ OthersIdle

\* extract_entities_sync: it runs the coroutine with the default
\* extract_relations = True and turns an exception into the error result
SyncReturn ==
    /\ impl = "basic"
    /\ epc \in {"returned", "raised"}
    /\ extract_relations
    /\ sync_result = NoResult
    /\ sync_result' = IF result.kind = "raised"
                      THEN ErrorResult(result.exception)
                      ELSE result
    /\ UNCHANGED <<inputVars, classVars, accVars, ctlVars, callVars, result>>
    /\ OthersIdle

AnyFault == Faults \cup {"none"}

BasicNext ==
    \/ Classify
    \/ TextBegin
    \/ TextLoopEnd
    \/ TextSkip
    \/ TextIssue
    \/ \E fault \in AnyFault : TextAnswer(fault)
    \/ TextSleep
    \/ TableBegin
    \/ TableLoopEnd
    \/ TableSkip
    \/ TableIssue
    \/ \E fault \in AnyFault : TableAnswer(fault)
    \/ TableSleep
    \/ DocIssue
    \/ \E fault \in AnyFault : DocAnswer(fault)
    \/ RelSkip
    \/ RelIssue
    \/ \E fault \in AnyFault : RelAnswer(fault)
    \/ ReturnResult
    \/ SyncReturn

----------------------------------------------------------------------------
(***************************************************************************)
(* The prompt-template implementation: RAGAnythingEntityExtractor          *)
(* (ragcl/raganything_entity_extractor.py).                                *)
(***************************************************************************)
\* re.findall(r'```(?:json)?\\s*([\\s\\S]*?)```', ...): the doubled
\* backslashes of the raw string make the pattern ask for a literal
\* backslash (token "b") after the fence and let the group hold backslashes
\* only, up to the closing fence
RECURSIVE EscapedFencedFrom(_, _)
EscapedFencedFrom(str, i) ==
    LET open == NextAt(str, "F", i)
    IN  IF open = 0 THEN <<>>
        ELSE
          LET afterTag == IF open + 1 <= Len(str) /\ str[open + 1] = "J"
                          THEN open + 2 ELSE open + 1
              others   == {k \in (afterTag + 1)..Len(str) : str[k] # "b"}
              stop     == IF others = {} THEN 0
                          ELSE CHOOSE k \in others : \A m \in others : k <= m
          IN  IF afterTag <= Len(str) /\ str[afterTag] = "b"
                 /\ stop # 0 /\ str[stop] = "F"
              THEN <<SubSeq(str, afterTag + 1, stop - 1)>>
                     \o EscapedFencedFrom(str, stop + 1)
              ELSE EscapedFencedFrom(str, open + 1)

EscapedFencedBlocks(str) == EscapedFencedFrom(str, 1)

\* re.findall(r'\\{[\\s\\S]*\\}', ...): a backslash, an opening brace,
\* backslashes, a backslash and a closing brace
RECURSIVE EscapedBraceFrom(_, _)
EscapedBraceFrom(str, i) ==
    LET open == NextAt(str, "b", i)
    IN  IF open = 0 \/ open + 3 > Len(str) THEN <<>>
        ELSE
          LET others == {k \in (open + 2)..Len(str) : str[k] # "b"}
              stop   == IF others = {} THEN 0
                        ELSE CHOOSE k \in others : \A m \in others : k <= m
          IN  IF str[open + 1] = "{" /\ stop > open + 2 /\ str[stop] = "}"
              THEN <<SubSeq(str, open, stop)>>
                     \o EscapedBraceFrom(str, stop + 1)
              ELSE EscapedBraceFrom(str, open + 1)

EscapedBraceSpans(str) == EscapedBraceFrom(str, 1)

\* RAGAnythingEntityExtractor._parse_json_response
_parse_json_response(str) ==
    IF str = <<>> THEN None
    ELSE FirstParsed(<<Strip(str)>> \o EscapedFencedBlocks(str)
                        \o EscapedBraceSpans(str))

\* what the service can answer to a request of this implementation: a
\* record without the entity keys, a record with one entity and one
\* relationship, a record with 'entity_info' (the modal prompts' format),
\* or a bare scalar
RAPayloads ==
    {[kind |-> "dict", key_present |-> FALSE, entity_info |-> FALSE,
      items |-> <<>>, rels |-> <<>>],
     [kind |-> "dict", key_present |-> TRUE, entity_info |-> FALSE,
      items |-> <<ServiceEntity("A")>>,
      rels |-> <<[from |-> "A", to |-> "B"]>>],
     [kind |-> "dict", key_present |-> FALSE, entity_info |-> TRUE,
      items |-> <<>>, rels |-> <<>>],
     [kind |-> "scalar", key_present |-> FALSE, entity_info |-> FALSE,
      items |-> <<>>, rels |-> <<>>]}

RANone == [kind |-> "none", key_present |-> FALSE, entity_info |-> FALSE,
           items |-> <<>>, rels |-> <<>>]

RAScalar == [kind |-> "scalar", key_present |-> FALSE,
             entity_info |-> FALSE, items |-> <<>>, rels |-> <<>>]

\* _process_table_content / _process_image_content: a record with
\* 'entity_info' becomes a record with one entity and no relationship; text
\* items return the recovered record as it is
RAModalResult(value, type) ==
    IF value.kind = "dict" /\ value.entity_info /\ type \in {"table", "image"}
    THEN [value EXCEPT !.key_present = TRUE,
                       !.items = <<ServiceEntity("M")>>,
                       !.rels = <<>>]
    ELSE value

\* the loop body's stamping of the relationships of one item
StampRelationships(rels, i, page) ==
    [k \in 1..Len(rels) |->
        [from |-> rels[k].from, to |-> rels[k].to,
         source_block |-> i, source_page |-> page]]

\* the completion as the service words it: the JSON alone, or prose around
\* a fenced block
StyledCompletion(style, payload) ==
    IF payload.kind # "dict" THEN <<"t">>
    ELSE IF style = "bare" THEN <<"s", "{", "t", "}", "s">>
    ELSE <<"w", "s", "F", "J", "s", "{", "t", "}", "s", "F">>

\* _call_llm followed by _parse_json_response
RARecovered(fault, style, payload) ==
    LET completion == CASE fault = "raise"   -> None
                        [] fault = "empty"   -> <<>>
                        [] fault = "garbage" -> <<"w", "s", "w">>
                        [] OTHER -> StyledCompletion(style, payload)
        recovered  == _parse_json_response(completion)
    IN  IF recovered = None THEN RANone
        ELSE IF Head(recovered) = "{" THEN payload
        ELSE RAScalar

\* what _process_*_content does with an item before any request:
\* "raise" (.strip() on a text that is not a string), "none" (too short, or
\* a table without body) or "call"
RAPlan(item) ==
    CASE item.type = "text" /\ ~item.text_is_str -> "raise"
      [] item.type = "text" /\ TextLen(TextStrip(item.text)) < MinTextLen
            -> "none"
      [] item.type = "table" /\ item.table_body = <<>> -> "none"
      [] OTHER -> "call"

RATextCap == 2000
RAColCap == 8

\* _format_table_data: table_body[:10], row[:8], str(cell)[:50]
_format_table_data(body) ==
    [r \in 1..Min(RowCap, Len(body)) |->
        [c \in 1..Min(RAColCap, Len(body[r])) |->
            [body[r][c] EXCEPT !.n = Min(CellCap, @)]]]

\* what the prompt of an item is filled with: text[:2000] of the trimmed
\* text, the rendered table, or the caption of an image (none here)
RAPrompt(item) ==
    CASE item.type = "text" -> TextPrefix(TextStrip(item.text), RATextCap)
      [] item.type = "table" -> _format_table_data(item.table_body)
      [] OTHER -> <<>>

RAInit ==
    /\ impl = "raganything"
    /\ content_list \in ContentLists
    /\ extract_relations \in BOOLEAN
    /\ svc = [unit |-> <<>>, rel |-> PyDict(TRUE, <<>>)]
    /\ text_blocks = <<>>
    /\ table_blocks = <<>>
    /\ processed_blocks = <<>>
    /\ all_entities = <<>>
    /\ all_relationships = <<>>
    /\ doc_analysis = EmptyDict
    /\ epc = "ra_loop"
    /\ unit_idx = 1
    /\ in_flight = <<>>
    /\ calls = <<>>
    /\ result = NoResult
    /\ sync_result = NoResult
    /\ ParseIdle
    /\ RenderIdle
    /\ BatchIdle

\* an item that leads to no request: not a dict (continue), an exception
\* inside the try block, or a None result
RAPass ==
    /\ impl = "raganything"
    /\ epc = "ra_loop"
    /\ unit_idx <= Len(content_list)
    /\ \/ ~content_list[unit_idx].isdict
       \/ RAPlan(content_list[unit_idx]) # "call"
    /\ unit_idx' = unit_idx + 1
    /\ UNCHANGED <<inputVars, classVars, accVars, epc, callVars, outVars>>
    /\ OthersIdle

\* the request for a text, table or image item is issued
RAIssue ==
    /\ impl = "raganything"
    /\ epc = "ra_loop"
    /\ unit_idx <= Len(content_list)
    /\ content_list[unit_idx].isdict
    /\ RAPlan(content_list[unit_idx]) = "call"
    /\ in_flight' = Append(in_flight, Call(content_list[unit_idx].type, unit_idx - 1,
                            RAPrompt(content_list[unit_idx])))
    /\ calls' = Append(calls, Call(content_list[unit_idx].type, unit_idx - 1,
                                   RAPrompt(content_list[unit_idx])))
    /\ epc' = "ra_await"
    /\ UNCHANGED <<inputVars, classVars, accVars, unit_idx, outVars>>
    /\ OthersIdle

\* the answer is recovered and, if it is a record, its entities and
\* relationships are stamped and appended (for tables and images the record
\* is first turned into one entity when it has 'entity_info'); a scalar makes
\* .get raise, which the except branch swallows before the sleep is reached
RAAnswer(fault, style, payload) ==
    /\ impl = "raganything"
    /\ epc = "ra_await"
    /\ LET item  == content_list[unit_idx]
           value == RAModalResult(RARecovered(fault, style, payload),
                                  item.type)
           block == [item EXCEPT !.block_index = unit_idx - 1]
       IN  /\ IF value.kind = "dict" /\ value.key_present
              THEN /\ all_entities' = all_entities
                         \o StampEntities(value.items, block, item.type)
                   /\ all_relationships' = all_relationships
                         \o StampRelationships(value.rels, unit_idx - 1,
                                               item.page_idx)
              ELSE UNCHANGED <<all_entities, all_relationships>>
           /\ calls' = IF value.kind = "scalar"
                       THEN Answered(calls, fault)
                       ELSE Slept(Answered(calls, fault))
    /\ in_flight' = Returned(in_flight)
    /\ unit_idx' = unit_idx + 1
    /\ epc' = "ra_loop"
    /\ UNCHANGED <<inputVars, classVars, doc_analysis, outVars>>
    /\ OthersIdle

\* after the loop: the locally computed document analysis and the result
RAReturn ==
    /\ impl = "raganything"
    /\ epc = "ra_loop"
    /\ unit_idx > Len(content_list)
    /\ doc_analysis' = PyDict(TRUE, <<>>)
    /\ result' = ExtractionResult(all_entities, all_relationships,
                    doc_analysis',
                    [keys |-> {"total_entities", "total_relationships",
                               "content_blocks_processed",
                               "processing_method"},
                     total_entities         |-> Len(all_entities),
                     total_relationships    |-> Len(all_relationships),
                     text_blocks_processed  |-> -1,
                     table_blocks_processed |-> -1,
                     error                  |-> ""])
    /\ epc' = "returned"
    /\ UNCHANGED <<inputVars, classVars, all_entities, all_relationships,
                   unit_idx, callVars, sync_result>>
    /\ OthersIdle

RANext ==
    \/ RAPass
    \/ RAIssue
    \/ \E fault \in AnyFault, style \in {"bare", "fenced"},
          payload \in RAPayloads : RAAnswer(fault, style, payload)
    \/ RAReturn

----------------------------------------------------------------------------
(***************************************************************************)
(* The library-driven implementation: LightRAGEntityExtractor              *)
(* (ragcl/lightrag_entity_extractor.py).  The library's extract_entities   *)
(* is external: it returns a list of (nodes, edges) pairs or raises.       *)
(***************************************************************************)
\* what the library can hand back: per chunk the number of nodes, the
\* number of edges and whether an edge weight is a number
ChunkResults ==
    {<<>>,
     <<[nodes |-> 1, edges |-> 0, weights_ok |-> TRUE]>>,
     <<[nodes |-> 2, edges |-> 1, weights_ok |-> TRUE]>>,
     <<[nodes |-> 1, edges |-> 1, weights_ok |-> FALSE]>>,
     <<[nodes |-> 1, edges |-> 1, weights_ok |-> TRUE],
       [nodes |-> 1, edges |-> 0, weights_ok |-> TRUE]>>}

\* _process_chunk_results: one entity per node and one relationship per
\* edge, chunk after chunk; weight / 10.0 raises on a weight that is no number
RECURSIVE ProcessChunks(_)
ProcessChunks(chunks) ==
    IF chunks = <<>>
    THEN [ok |-> TRUE, entities |-> <<>>, relationships |-> <<>>]
    ELSE LET chunk == Head(chunks)
             rest  == ProcessChunks(Tail(chunks))
         IN  IF chunk.edges > 0 /\ ~chunk.weights_ok
             THEN [ok |-> FALSE, entities |-> <<>>, relationships |-> <<>>]
             ELSE [ok |-> rest.ok,
                   entities |->
                      [k \in 1..chunk.nodes |->
                          [name |-> "N", source_block |-> -1,
                           source_page |-> -1, source_type |-> "lightrag"]]
                      \o rest.entities,
                   relationships |->
                      [k \in 1..chunk.edges |-> [from |-> "N", to |-> "N"]]
                      \o rest.relationships]

LRInit ==
    /\ impl = "lightrag"
    /\ content_list \in ContentLists
    /\ extract_relations \in BOOLEAN
    /\ svc = [unit |-> <<>>, rel |-> PyDict(TRUE, <<>>)]
    /\ text_blocks = <<>>
    /\ table_blocks = <<>>
    /\ processed_blocks = <<>>
    /\ all_entities = <<>>
    /\ all_relationships = <<>>
    /\ doc_analysis = EmptyDict
    /\ epc = "lr_convert"
    /\ unit_idx = 0
    /\ in_flight = <<>>
    /\ calls = <<>>
    /\ result = NoResult
    /\ sync_result = NoResult
    /\ ParseIdle
    /\ RenderIdle
    /\ BatchIdle

\* _convert_to_lightrag_chunks: .strip() on a text that is not a string
\* raises into the except branch of the coroutine, which returns the error
\* result
LRConvert ==
    /\ impl = "lightrag"
    /\ epc = "lr_convert"
    /\ IF \E k \in 1..Len(content_list) :
             /\ content_list[k].isdict
             /\ content_list[k].type = "text"
             /\ ~content_list[k].text_is_str
       THEN /\ result' = ErrorResult("AttributeError")
            /\ epc' = "returned"
       ELSE /\ epc' = "lr_extract"
            /\ UNCHANGED result
    /\ UNCHANGED <<inputVars, classVars, accVars, unit_idx, callVars,
                   sync_result>>
    /\ OthersIdle

\* _extract_entities_with_lightrag and _process_chunk_results: the library
\* call (an exception of the library gives an empty list) and the
\* conversion of its result
LRExtract(chunk_results) ==
    /\ impl = "lightrag"
    /\ epc = "lr_extract"
    /\ LET processed == ProcessChunks(chunk_results)
       IN  IF processed.ok
           THEN /\ all_entities' = processed.entities
                /\ all_relationships' = processed.relationships
                /\ epc' = "lr_return"
                /\ UNCHANGED result
           ELSE /\ result' = ErrorResult("TypeError")
                /\ epc' = "returned"
                /\ UNCHANGED <<all_entities, all_relationships>>
    /\ UNCHANGED <<inputVars, classVars, doc_analysis, unit_idx, callVars,
                   sync_result>>
    /\ OthersIdle

\* the document analysis is computed locally and the result is returned
LRReturn ==
    /\ impl = "lightrag"
    /\ epc = "lr_return"
    /\ doc_analysis' = PyDict(TRUE, <<>>)
    /\ result' = ExtractionResult(all_entities, all_relationships,
                    doc_analysis',
                    [keys |-> {"total_entities", "total_relationships",
                               "chunks_processed",
                               "content_blocks_processed"},
                     total_entities         |-> Len(all_entities),
                     total_relationships    |-> Len(all_relationships),
                     text_blocks_processed  |-> -1,
                     table_blocks_processed |-> -1,
                     error                  |-> ""])
    /\ epc' = "returned"
    /\ UNCHANGED <<inputVars, classVars, all_entities, all_relationships,
                   unit_idx, callVars, sync_result>>
    /\ OthersIdle

LRNext ==
    \/ LRConvert
    \/ \E chunk_results \in ChunkResults : LRExtract(chunk_results)
    \/ LRReturn

----------------------------------------------------------------------------
(***************************************************************************)
(* SpecExtract: one pipeline run of one of the three extractors.           *)
(***************************************************************************)
PipelineInit == ExtractInit \/ RAInit \/ LRInit

PipelineNext == BasicNext \/ RANext \/ LRNext

SpecExtract == PipelineInit /\ [][PipelineNext]_vars

----------------------------------------------------------------------------
(***************************************************************************)
(* SpecParse: _parse_llm_response applied to every bounded response.       *)
(***************************************************************************)
ParseInit ==
    /\ response \in Strings
    /\ parsed = None
    /\ ppc = "ready"
    /\ BatchIdle
    /\ ExtractIdle
    /\ RenderIdle

ParseResponse ==
    /\ ppc = "ready"
    /\ parsed' = _parse_llm_response(response)
    /\ ppc' = "done"
    /\ UNCHANGED response
    /\ UNCHANGED batchVars
    /\ UNCHANGED extractVars
    /\ UNCHANGED renderVars

\* RAGAnythingEntityExtractor._parse_json_response(response)
ParseJsonResponse ==
    /\ ppc = "ready"
    /\ parsed' = _parse_json_response(response)
    /\ ppc' = "done_ra"
    /\ UNCHANGED response
    /\ UNCHANGED batchVars
    /\ UNCHANGED extractVars
    /\ UNCHANGED renderVars

ParseNext == ParseResponse \/ ParseJsonResponse

SpecParse == ParseInit /\ [][ParseNext]_vars

----------------------------------------------------------------------------
(***************************************************************************)
(* SpecRender: one of the two table renderers applied to a table.  A table *)
(* is a sequence of rows of cells; the rendered text is kept as its rows   *)
(* of (cut) cells, or as the placeholder the renderers give for an empty   *)
(* table.                                                                  *)
(***************************************************************************)
MaxRows == 11
MaxCols == 11
MaxCellLen == 51

\* tables of every size up to the bounds; in a jagged table the odd rows
\* are one cell shorter
Tables ==
    {[r \in 1..rows |->
        [c \in 1..(IF jagged /\ r % 2 = 1 /\ cols > 0 THEN cols - 1 ELSE cols)
            |-> Cell(r, c, n)]] :
        rows \in 0..MaxRows, cols \in 0..MaxCols,
        n \in {0, 1, CellCap, MaxCellLen}, jagged \in BOOLEAN}

RenderInit ==
    /\ table_body \in Tables
    /\ renderer \in {"_format_table_for_llm", "_format_table_data"}
    /\ rendered = NotRendered
    /\ ParseIdle
    /\ BatchIdle
    /\ ExtractIdle

\* EntityExtractor._format_table_for_llm(table_body)
RenderForLLM ==
    /\ renderer = "_format_table_for_llm"
    /\ ~rendered.done
    /\ rendered' = [done |-> TRUE, placeholder |-> table_body = <<>>,
                    rows |-> _format_table_for_llm(table_body)]
    /\ UNCHANGED <<table_body, renderer>>
    /\ UNCHANGED <<parseVars, batchVars, extractVars>>

\* RAGAnythingEntityExtractor._format_table_data(table_body)
RenderTableData ==
    /\ renderer = "_format_table_data"
    /\ ~rendered.done
    /\ rendered' = [done |-> TRUE, placeholder |-> table_body = <<>>,
                    rows |-> _format_table_data(table_body)]
    /\ UNCHANGED <<table_body, renderer>>
    /\ UNCHANGED <<parseVars, batchVars, extractVars>>

RenderNext == RenderForLLM \/ RenderTableData

SpecRender == RenderInit /\ [][RenderNext]_vars

----------------------------------------------------------------------------
(***************************************************************************)
(* SpecMerge: EntityExtractor._merge_text_blocks applied to a sequence of  *)
(* classified text blocks.                                                 *)
(***************************************************************************)
MaxTexts == 4

\* the shapes of text blocks: 5, 50 and 250 characters, a text that is no
\* string, a text of blanks only, and a block without 'text' key
TextShapes == {"short", "mid", "long", "badtext", "blank", "notext"}

\* sequences of text blocks as the classification loop hands them on
TextSequences ==
    UNION {{[k \in 1..n |->
                [BlockAt(shapes[k], k - 1) EXCEPT !.block_index = k - 1]] :
                shapes \in [1..n -> TextShapes]} : n \in 0..MaxTexts}

MergeInit ==
    /\ impl = "merge"
    /\ text_blocks \in TextSequences
    /\ epc = "merge_call"
    /\ content_list = <<>>
    /\ extract_relations = FALSE
    /\ svc = <<>>
    /\ table_blocks = <<>>
    /\ processed_blocks = <<>>
    /\ all_entities = <<>>
    /\ all_relationships = <<>>
    /\ doc_analysis = EmptyDict
    /\ unit_idx = 0
    /\ in_flight = <<>>
    /\ calls = <<>>
    /\ result = NoResult
    /\ sync_result = NoResult
    /\ ParseIdle
    /\ BatchIdle
    /\ RenderIdle

\* processed_blocks = self._merge_text_blocks(text_blocks)
MergeTexts ==
    /\ impl = "merge"
    /\ epc = "merge_call"
    /\ LET merge == _merge_text_blocks(text_blocks)
       IN  /\ text_blocks' = merge.input
           /\ IF merge.ok
              THEN /\ processed_blocks' = merge.units
                   /\ epc' = "merge_returned"
                   /\ UNCHANGED result
              ELSE /\ result' = Raised(merge.exc)
                   /\ epc' = "merge_raised"
                   /\ UNCHANGED processed_blocks
    /\ UNCHANGED <<inputVars, table_blocks, accVars, unit_idx, callVars,
                   sync_result>>
    /\ OthersIdle

MergeNext == MergeTexts

SpecMerge == MergeInit /\ [][MergeNext]_vars

----------------------------------------------------------------------------
(***************************************************************************)
(* Claims about the response recoverer (checked under SpecParse).          *)
(***************************************************************************)
Parses(cand) == json_loads(cand).ok

\* the candidates of the three strategies of the current response
Direct == Strip(response)
Fences == FencedBlocks(response)
Braces == BraceSpans(response)

SomeFenceParses == \E i \in 1..Len(Fences) : Parses(Fences[i])

FirstParsingFence ==
    CHOOSE i \in 1..Len(Fences) :
        Parses(Fences[i]) /\ \A k \in 1..(i - 1) : ~Parses(Fences[k])

SomeBraceParses == \E i \in 1..Len(Braces) : Parses(Braces[i])

NoCandidateParses == ~Parses(Direct) /\ ~SomeFenceParses /\ ~SomeBraceParses

\* the stricter strategy wins: full response, then the fenced blocks in
\* order of appearance, then the brace span
StrictestFirst ==
    /\ Parses(Direct) => parsed = JsonValue(Direct)
    /\ (~Parses(Direct) /\ SomeFenceParses)
          => parsed = JsonValue(Fences[FirstParsingFence])
    /\ (~Parses(Direct) /\ ~SomeFenceParses /\ SomeBraceParses)
          => parsed = JsonValue(Braces[1])

\* the value of the first candidate that parses is the JSON literal null
FirstParsingIsNull ==
    \/ Parses(Direct) /\ JsonValue(Direct) = None
    \/ ~Parses(Direct) /\ SomeFenceParses
         /\ JsonValue(Fences[FirstParsingFence]) = None
    \/ ~Parses(Direct) /\ ~SomeFenceParses /\ SomeBraceParses
         /\ JsonValue(Braces[1]) = None

\* C3 as stated: _parse_llm_response returns the parse of the first candidate
\* that parses, strictest strategy first, and returns none exactly when no
\* candidate parses.
C3_NoneExactlyWhenNothingParses ==
    ppc = "done" =>
        /\ StrictestFirst
        /\ (parsed = None <=> NoCandidateParses)

\* C3 amended: _parse_llm_response returns the parse of the first candidate
\* that parses, strictest strategy first; it returns none when no candidate
\* parses, and otherwise only when the first candidate that parses is the
\* JSON literal null (whose parse is none).
C3_OrderedFallback ==
    ppc = "done" =>
        /\ StrictestFirst
        /\ (NoCandidateParses => parsed = None)
        /\ (parsed = None => (NoCandidateParses \/ FirstParsingIsNull))

\* prose followed by a fenced block that holds valid JSON: the full response
\* does not parse and the fenced block decides the result
C3_Witness ==
    /\ ppc = "done"
    /\ Len(response) > 1
    /\ response[1] = "w"
    /\ ~Parses(Direct)
    /\ SomeFenceParses
    /\ parsed = JsonValue(Fences[FirstParsingFence])
    /\ parsed # None

\* the first opening brace of the response, and the position after the
\* well-formed JSON object that starts there (0: there is none)
FirstBrace == NextAt(response, "{", 1)
FirstObjectEnd == IF FirstBrace = 0 THEN 0 ELSE ScanValue(response, FirstBrace)

\* C24: when the full response does not parse and there are no fences,
\* _parse_llm_response recovers the first brace-delimited span: a response
\* that embeds a well-formed JSON object in prose yields that object, also
\* when text with a closing brace follows it.
C24_FirstBraceSpanRecovered ==
    (/\ ppc = "done"
     /\ "F" \notin Range(response)
     /\ ~Parses(Direct)
     /\ FirstObjectEnd # 0)
        => parsed = JsonValue(SubSeq(response, FirstBrace, FirstObjectEnd - 1))

\* C25: RAGAnythingEntityExtractor._parse_json_response implements the same
\* three-strategy fallback as EntityExtractor._parse_llm_response: on every
\* response both return the same record or both return none.
C25_RecoverersAgree ==
    ppc = "done_ra" => parsed = _parse_llm_response(response)

----------------------------------------------------------------------------
(***************************************************************************)
(* Claims about the batch orchestrator (checked under SpecBatch, the       *)
(* termination claim under SpecBatchFair).                                 *)
(***************************************************************************)
Positions == 1..Len(file_paths)

\* the chunk an input position belongs to: chunk k (counted from 1) holds
\* the 0-based positions (k-1)*B .. min(k*B, N)-1
ChunkIndex(p) == ((p - 1) \div batch_size) + 1

Started(p) == future[p].state \in {"RUNNING", "FINISHED"}
Completed(p) == future[p].state = "FINISHED"
Running == {p \in Positions : future[p].state = "RUNNING"}

Succeeded == {file \in Range(file_paths) : outcome[file] = "ok"}
Failed == Range(file_paths) \ Succeeded

DistinctInput ==
    \A p, q \in Positions : file_paths[p] = file_paths[q] => p = q

\* C2: on return the success mapping contains exactly the input files whose
\* parse succeeded, each mapped to its own parse result; a file whose parse
\* raised is in the failure list and never in the mapping, and no parse of
\* another file was cancelled because of it.
C2_FailureIsolation ==
    bpc = "done" =>
        /\ \A p \in Positions : Completed(p)
        /\ DictKeys(returned.value) = Succeeded
        /\ \A item \in returned.value : item[2] = ContentOf(item[1])
        /\ \A file \in Failed :
              file \in Range(failed_files) /\ file \notin DictKeys(results)
        /\ Range(failed_files) = Failed

\* three files of which the second raises: the first and the third are in
\* the returned mapping
C2_Witness ==
    /\ bpc = "done"
    /\ Len(file_paths) = 3
    /\ DistinctInput
    /\ outcome[file_paths[1]] = "ok"
    /\ outcome[file_paths[2]] # "ok"
    /\ outcome[file_paths[3]] = "ok"
    /\ DictKeys(returned.value) = {file_paths[1], file_paths[3]}
    /\ failed_files = <<file_paths[2]>>

\* C7: chunk boundaries are a barrier: whenever the parse of a file of a
\* later chunk has started, the parse of every file of every earlier chunk
\* has completed.
C7_ChunkBarrier ==
    \A p, q \in Positions :
        (ChunkIndex(p) < ChunkIndex(q) /\ Started(q)) => Completed(p)

\* a parse of the second chunk runs after a first chunk of two files
C7_Witness ==
    /\ batch_size = 2
    /\ Len(file_paths) = 3
    /\ future[3].state = "RUNNING"
    /\ Completed(1) /\ Completed(2)

\* C8: at most max_workers parse calls are in progress, and chunk k holds
\* exactly the input positions k*B .. min((k+1)*B, N)-1: a position is
\* submitted by its own chunk only, no chunk holds more than batch_size
\* files, and on return every position has been submitted by exactly one
\* chunk.
C8_BoundedWorkersAndChunks ==
    /\ Cardinality(Running) <= max_workers
    /\ \A p \in Positions : batch_of[p] \subseteq {ChunkIndex(p)}
    /\ \A k \in 1..(Len(file_paths) + 1) :
          Cardinality({p \in Positions : k \in batch_of[p]}) <= batch_size
    /\ bpc = "done" => \A p \in Positions : batch_of[p] = {ChunkIndex(p)}

\* the pool is full: max_workers calls run while a third call of the same
\* chunk waits in the queue
C8_Witness ==
    /\ max_workers = 2
    /\ Cardinality(Running) = 2
    /\ \E p \in Positions : future[p].state = "PENDING"

\* what holds when parse_documents_batch has returned
ReturnedComplete ==
    bpc = "done" =>
        /\ \A p \in Positions : Completed(p) /\ p \in yielded
        /\ returned.visible
        /\ DistinctInput =>
              /\ Cardinality(DictKeys(returned.value)) + Len(failed_files)
                    = Len(file_paths)
              /\ \A file \in Range(file_paths) :
                    (file \in DictKeys(returned.value))
                        # (file \in Range(failed_files))

\* C9: with terminating parse calls, batch_size >= 1 and max_workers >= 1,
\* parse_documents_batch eventually returns; it returns only after the parse
\* of every input file has completed, every one of N distinct input files is
\* then in exactly one of the success mapping and the failure list, and
\* nothing of the result is visible to the caller before the return.
C9_ReturnsComplete ==
    /\ <>(bpc = "done")
    /\ [](ReturnedComplete)
    /\ [](bpc # "done" => ~returned.visible)

\* returned with three distinct files, successes and failures mixed
C9_Witness ==
    /\ bpc = "done"
    /\ Len(file_paths) = 3
    /\ DistinctInput
    /\ Succeeded # {} /\ Failed # {}
    /\ returned.visible

\* C10 as stated: the value handed back carries, next to the success
\* mapping, every failed file together with the cause of its failure.
C10_FailuresReturnedWithCause ==
    bpc = "done" =>
        \A file \in Failed :
            \E item \in returned.value :
                item[1] = file /\ item[2] = <<outcome[file]>>

\* C10 amended: the value handed back is the success mapping alone; a failed
\* file is recorded, by identity only and without its cause, in the internal
\* failure list (which is logged, not returned), and the caller can tell the
\* failure only from the absence of the file's key in the mapping.
C10_OnlySuccessMappingReturned ==
    bpc = "done" =>
        /\ returned.value = results
        /\ \A item \in returned.value : item[2] = ContentOf(item[1])
        /\ \A p \in Positions :
              outcome[file_paths[p]] # "ok" =>
                  /\ file_paths[p] \notin DictKeys(returned.value)
                  /\ \E k \in 1..Len(failed_files) :
                        failed_files[k] = file_paths[p]
        /\ \A k \in 1..Len(failed_files) : failed_files[k] \in Files

\* returned after the parse of some file raised FileNotFoundError and the
\* parse of another raised a parser error
C10_Witness ==
    /\ bpc = "done"
    /\ \E file \in Failed : outcome[file] = "FileNotFoundError"
    /\ \E file \in Failed : outcome[file] = "ParseError"
    /\ Len(failed_files) >= 2

\* the items the loop body has filed for the futures yielded so far
FiledSuccesses ==
    {<<file_paths[p], ContentOf(file_paths[p])>> :
        p \in {q \in yielded : outcome[file_paths[q]] = "ok"}}

\* C11: for distinct input files and fixed parse outcomes the success
\* mapping, as a set of file-to-result pairs, is the same under every order
\* in which the workers of a chunk complete: at every moment it is
\* determined by the set of futures handled so far, and the returned mapping
\* by the input and the outcomes alone.
C11_MappingIndependentOfCompletionOrder ==
    DistinctInput =>
        /\ results = FiledSuccesses
        /\ returned.visible =>
              returned.value = {<<file, ContentOf(file)>> : file \in Succeeded}

\* the second file of a chunk has been handled before the first, both
\* parses succeed
C11_Witness ==
    /\ DistinctInput
    /\ bpc = "collect"
    /\ batch_start = 0
    /\ batch_size >= 2
    /\ Len(file_paths) >= 2
    /\ outcome[file_paths[1]] = "ok"
    /\ outcome[file_paths[2]] = "ok"
    /\ yielded = {2}
    /\ results = {<<file_paths[2], ContentOf(file_paths[2])>>}

\* C30: during parse_documents_batch with result saving, no two workers
\* write the same persisted output: two workers that have their output
\* files open at the same time for distinct input files have distinct
\* files open, and the output file of every input file that was parsed and
\* saved keeps holding that file's complete result -- also for inputs that
\* share a base name.
C30_DistinctInputsDistinctOutputs ==
    save_intermediate =>
        /\ \A p, q \in writing :
              file_paths[p] # file_paths[q] =>
                  OutputFile(file_paths[p]) # OutputFile(file_paths[q])
        /\ \A p \in DOMAIN future :
              (future[p].state = "FINISHED" /\ IsSuccess(future[p])) =>
                  \E item \in saved :
                      /\ item[1] = OutputFile(file_paths[p])
                      /\ item[2].of = file_paths[p]

----------------------------------------------------------------------------
(***************************************************************************)
(* Claims about the extraction pipelines (checked under SpecExtract).      *)
(***************************************************************************)
\* the text units and tables of the input for which the service is asked,
\* in the order of the passes
SentTextUnits ==
    SelectSeq(_merge_text_blocks(
                  BlocksOfType(AssignIndex(content_list), "text")).units,
              TextUnitIsSent)

SentTables ==
    SelectSeq(BlocksOfType(AssignIndex(content_list), "table"), TableIsSent)

MergeRaises ==
    ~_merge_text_blocks(BlocksOfType(AssignIndex(content_list), "text")).ok

\* the requests a run without any failure issues before the relationship
\* pass: one per text unit, one per table, one for the document
ExpectedRequests ==
    [k \in 1..Len(SentTextUnits) |->
        [kind |-> "text", block |-> SentTextUnits[k].block_index]]
    \o [k \in 1..Len(SentTables) |->
        [kind |-> "table", block |-> SentTables[k].block_index]]
    \o <<[kind |-> "doc", block |-> -1]>>

\* the requests of the log without their outcome
IssuedRequests(kinds) ==
    LET chosen == SelectSeq(calls, LAMBDA c : c.kind \in kinds)
    IN  [k \in 1..Len(chosen) |->
            [kind |-> chosen[k].kind, block |-> chosen[k].block]]

\* what the answer held ready for a unit is worth when its call does not
\* fail: the entities of the answer with the unit's position, page and kind
UnitContribution(kind, block) ==
    LET payload == svc.unit[block]
    IN  IF payload.kind = "dict" /\ payload.key_present
        THEN [k \in 1..Len(payload.items) |->
                [name         |-> payload.items[k].name,
                 source_block |-> block,
                 source_page  |-> content_list[block + 1].page_idx,
                 source_type  |-> kind]]
        ELSE <<>>

\* the entities owed by the first n requests of the log, failed ones
\* (when failures count) contributing nothing
RECURSIVE ContributionsUpTo(_, _)
ContributionsUpTo(n, failures_count) ==
    IF n = 0 THEN <<>>
    ELSE ContributionsUpTo(n - 1, failures_count)
           \o (IF calls[n].kind \notin {"text", "table"}
                  \/ (failures_count /\ calls[n].failed)
               THEN <<>>
               ELSE UnitContribution(calls[n].kind, calls[n].block))

FailedCalls(kind) == {k \in 1..Len(calls) : calls[k].kind = kind /\ calls[k].failed}

GoodCalls(kind) == {k \in 1..Len(calls) : calls[k].kind = kind /\ ~calls[k].failed}

NonErrorResult(r) == r.kind = "result" /\ "error" \notin r.statistics.keys

\* the parts of C1 that do not concern the relationship request: the run
\* ends in a non-error result unless something other than a failed call
\* raised, the text, table and document requests are those of a run without
\* failures, and every unit contributes what its own answer is worth, or
\* nothing when its call failed
FailuresAreContained ==
    /\ epc = "raised" =>
          \/ MergeRaises
          \/ GoodCalls("rel") # {} /\ svc.rel.items_null
    /\ epc = "returned" =>
          /\ NonErrorResult(result)
          /\ IssuedRequests({"text", "table", "doc"}) = ExpectedRequests
          /\ result.entities = ContributionsUpTo(Len(calls), TRUE)
          /\ result.document_analysis =
                IF FailedCalls("doc") # {} THEN EmptyDict ELSE DocPayload
          /\ result.relationships =
                IF GoodCalls("rel") # {} THEN svc.rel.items ELSE <<>>

C4_StatisticsMatchLengths ==
    \A r \in {result, sync_result} :
        NonErrorResult(r) =>
            /\ r.statistics.total_entities = Len(r.entities)
            /\ r.statistics.total_relationships = Len(r.relationships)

\* a non-error result of EntityExtractor whose entity count differs from
\* its block counts and which has a relationship
C4_Witness ==
    /\ impl = "basic"
    /\ NonErrorResult(result)
    /\ Len(result.entities) > Len(text_blocks) + Len(table_blocks)
    /\ Len(result.relationships) > 0

\* results of the two other extractors with entities and relationships
C4_WitnessRAGAnything ==
    /\ impl = "raganything"
    /\ NonErrorResult(result)
    /\ Len(result.entities) > 0
    /\ Len(result.relationships) > 0

C4_WitnessLightRAG ==
    /\ impl = "lightrag"
    /\ NonErrorResult(result)
    /\ Len(result.entities) > 1
    /\ Len(result.relationships) > 0

\* C5: when an error escapes the per-unit handlers in a run started through
\* EntityExtractor.extract_entities_sync, the call returns the error-shaped
\* result: entities and relationships empty, document_analysis empty,
\* statistics with the error field only; what the run had gathered is
\* discarded, and the wrapper never hands an exception to its caller.
C5_SyncReturnsErrorShape ==
    /\ sync_result.kind # "raised"
    /\ (impl = "basic" /\ sync_result # NoResult /\ result.kind = "raised") =>
          /\ sync_result.kind = "result"
          /\ sync_result.entities = <<>>
          /\ sync_result.relationships = <<>>
          /\ sync_result.document_analysis = EmptyDict
          /\ sync_result.statistics.keys = {"error"}
          /\ sync_result.statistics.error = result.exception

\* the wrapper has returned after an error that escaped while entities
\* were already gathered
C5_Witness ==
    /\ impl = "basic"
    /\ sync_result # NoResult
    /\ result.kind = "raised"
    /\ all_entities # <<>>
    /\ sync_result.entities = <<>>

\* C6 as stated: extract_entities_from_content_list(content_list,
\* extract_relations) never raises to its caller: an unrecovered error in
\* one of its passes gives the error-shaped result.
C6_EntryPointNeverRaises ==
    impl = "basic" => result.kind # "raised"

----------------------------------------------------------------------------
(***************************************************************************)
(* Claims about merging, the minimum length and the requests of            *)
(* EntityExtractor (checked under SpecExtract).                            *)
(***************************************************************************)
\* the 0-based input positions of the text blocks with a string text whose
\* trimmed length is below the minimum
ShortTextPositions ==
    {i \in 0..(Len(content_list) - 1) :
        /\ content_list[i + 1].isdict
        /\ content_list[i + 1].type = "text"
        /\ content_list[i + 1].text_is_str
        /\ TextLen(TextStrip(content_list[i + 1].text)) < MinTextLen}

\* characters of the block at input position i are part of a text
HoldsTextOf(text, i) == \E k \in 1..Len(text) : text[k].src = i

TextCalls == SelectSeq(calls, LAMBDA c : c.kind = "text")

SourcesOf(unit) ==
    {unit.text[k].src : k \in {j \in 1..Len(unit.text) : unit.text[j].src >= 0}}

\* the texts of the blocks at the given input positions, joined by newlines
RECURSIVE JoinedTexts(_)
JoinedTexts(indices) ==
    IF indices = <<>> THEN <<>>
    ELSE content_list[Head(indices) + 1].text
           \o (IF Tail(indices) = <<>> THEN <<>>
               ELSE <<Newline>> \o JoinedTexts(Tail(indices)))

\* a newline and the trimmed text, for each of the blocks at the given
\* input positions
RECURSIVE FoldedTexts(_)
FoldedTexts(indices) ==
    IF indices = <<>> THEN <<>>
    ELSE <<Newline>> \o TextStrip(content_list[Head(indices) + 1].text)
           \o FoldedTexts(Tail(indices))

RECURSIVE MembersOfUnits(_)
MembersOfUnits(units) ==
    IF units = <<>> THEN <<>>
    ELSE <<Head(units).block_index>> \o Head(units).merged_blocks
           \o MembersOfUnits(Tail(units))

IsFolded(unit) == Cardinality(SourcesOf(unit)) > 1

\* C13 as stated: a unit into which adjacent blocks were folded has as text
\* the texts of its source blocks joined by a newline in original order, and
\* its merged_blocks holds the block_index of every source block, the one
\* that started the unit included.
C13_MergedBlocksHoldsEverySource ==
    impl = "basic" =>
        \A u \in 1..Len(processed_blocks) :
            LET unit == processed_blocks[u]
            IN  IsFolded(unit) =>
                  /\ Range(unit.merged_blocks) = SourcesOf(unit)
                  /\ unit.text = JoinedTexts(unit.merged_blocks)

\* C13 amended: the unit is a copy of the block that started it; its text is
\* that block's text as given, followed, for every block folded into it in
\* original order, by a newline and that block's trimmed text; merged_blocks
\* holds the block_index of the folded blocks only (the starting block is the
\* unit's block_index and is not in the list; a unit that absorbed nothing
\* has no list).  Every text block belongs to exactly one unit, and a block
\* that is not the first text block starts a unit only when its trimmed text
\* has 200 characters or more.
C13_MergedBlocksHoldsFoldedOnly ==
    impl = "basic" =>
        /\ \A u \in 1..Len(processed_blocks) :
              LET unit == processed_blocks[u]
              IN  /\ unit.block_index \notin Range(unit.merged_blocks)
                  /\ unit.text = content_list[unit.block_index + 1].text
                                    \o FoldedTexts(unit.merged_blocks)
                  /\ \A i \in Range(unit.merged_blocks) :
                        TextLen(TextStrip(content_list[i + 1].text))
                            < MergeThreshold
                  /\ u > 1 =>
                        TextLen(TextStrip(
                            content_list[unit.block_index + 1].text))
                            >= MergeThreshold
        /\ processed_blocks # <<>> =>
              MembersOfUnits(processed_blocks)
                  = [k \in 1..Len(text_blocks) |-> text_blocks[k].block_index]

\* two adjacent blocks of 50 characters were folded into one unit
C13_Witness ==
    /\ impl = "basic"
    /\ Len(processed_blocks) = 1
    /\ processed_blocks[1].block_index = 0
    /\ processed_blocks[1].merged_blocks = <<1>>
    /\ processed_blocks[1].text = <<Piece(0, 50), Newline, Piece(1, 50)>>


IsLong(block) == TextLen(TextStrip(block.text)) >= MergeThreshold

\* the text blocks that follow text block k up to the next long one
FollowersOf(k) ==
    {text_blocks[j].block_index :
        j \in {i \in (k + 1)..Len(text_blocks) :
                  \A m \in (k + 1)..i : ~IsLong(text_blocks[m])}}

\* C14 as stated: every long text block (trimmed length >= 200) is a unit
\* of its own: the unit that holds a long block holds the text of no other
\* block.
C14_LongBlocksStandAlone ==
    impl = "basic" =>
        \A u \in 1..Len(processed_blocks) :
            \A i \in SourcesOf(processed_blocks[u]) :
                IsLong(content_list[i + 1]) =>
                    SourcesOf(processed_blocks[u]) = {i}

\* C14 amended: every long text block starts a unit of its own -- it is
\* never folded into an earlier unit -- and that unit holds, besides the long
\* block, exactly the text blocks shorter than 200 characters that follow it
\* up to the next long block.
C14_LongBlocksStartUnits ==
    (impl = "basic" /\ processed_blocks # <<>>) =>
        \A k \in 1..Len(text_blocks) :
            IsLong(text_blocks[k]) =>
                /\ \E u \in 1..Len(processed_blocks) :
                      /\ processed_blocks[u].block_index
                            = text_blocks[k].block_index
                      /\ SourcesOf(processed_blocks[u])
                            = {text_blocks[k].block_index} \cup FollowersOf(k)
                /\ \A u \in 1..Len(processed_blocks) :
                      text_blocks[k].block_index
                          \notin Range(processed_blocks[u].merged_blocks)

\* a long block whose unit has absorbed the short block after it
C14_Witness ==
    /\ impl = "basic"
    /\ Len(processed_blocks) = 1
    /\ IsLong(content_list[1])
    /\ processed_blocks[1].block_index = 0
    /\ processed_blocks[1].merged_blocks = <<1>>
    /\ SourcesOf(processed_blocks[1]) = {0, 1}


CallsOfKind(kind) == SelectSeq(calls, LAMBDA c : c.kind = kind)

\* C16: the relationship request is issued if and only if extract_relations
\* is true and at least 2 entities were extracted; with fewer than 2
\* entities, or with the flag false, no relationship request is issued and
\* the relationships of the result are empty.
C16_RelationshipRequestGate ==
    impl = "basic" =>
        /\ CallsOfKind("rel") # <<>> =>
              extract_relations /\ Len(all_entities) >= 2
        /\ epc \in {"return", "returned"} =>
              (CallsOfKind("rel") # <<>>
                  <=> extract_relations /\ Len(all_entities) >= 2)
        /\ CallsOfKind("rel") = <<>> => all_relationships = <<>>
        /\ (epc = "returned" /\ CallsOfKind("rel") = <<>>) =>
              result.relationships = <<>>

\* a finished run with the flag set and a single entity: no relationship
\* request, no relationships
C16_Witness ==
    /\ impl = "basic"
    /\ epc = "returned"
    /\ extract_relations
    /\ Len(result.entities) = 1
    /\ CallsOfKind("rel") = <<>>
    /\ Len(calls) >= 2

\* C17: the relationship request is built from the names of the first
\* min(20, n) entities of the aggregated entity list, in insertion order,
\* and a run issues at most one relationship request, whatever n is.
C17_FirstTwentyNamesOneRequest ==
    impl = "basic" =>
        /\ Len(CallsOfKind("rel")) <= 1
        /\ \A k \in 1..Len(CallsOfKind("rel")) :
              LET names == CallsOfKind("rel")[k].prompt
                  n     == Len(all_entities)
              IN  /\ Len(names) = IF n < 20 THEN n ELSE 20
                  /\ \A j \in 1..Len(names) : names[j] = all_entities[j].name

\* a finished run that gathered more than 20 entities from two units and
\* named 20 of them in its relationship request
C17_Witness ==
    /\ impl = "basic"
    /\ epc = "returned"
    /\ Len(all_entities) > 21
    /\ Len(CallsOfKind("rel")) = 1
    /\ Len(CallsOfKind("rel")[1].prompt) = 20

\* the first 100 characters of the text or caption of the input block at
\* (1-based) position k
LeadingCharacters(k) ==
    LET block == content_list[k]
        text  == IF block.type = "text"
                 THEN (IF block.text_is_str THEN block.text
                       ELSE <<Piece(k - 1, 3)>>)
                 ELSE block.table_caption
    IN  IF TextLen(text) <= 100 THEN text
        ELSE <<Piece(Head(text).src, 100)>>

\* the preview the document analysis owes for the input: one entry for
\* every dict element among the first ten, in input order
PreviewOfInput ==
    LET n     == IF Len(content_list) < 10 THEN Len(content_list) ELSE 10
        dicts == SelectSeq([k \in 1..n |-> k],
                           LAMBDA k : content_list[k].isdict)
    IN  [j \in 1..Len(dicts) |->
            [type         |-> content_list[dicts[j]].type,
             text_preview |-> LeadingCharacters(dicts[j]),
             page         |-> content_list[dicts[j]].page_idx]]

\* merging never writes into the caller's blocks
InputIsUnmerged ==
    \A k \in 1..Len(content_list) :
        /\ content_list[k].merged_blocks = <<>>
        /\ \A j \in 1..Len(content_list[k].text) :
              content_list[k].text[j].src \in {k - 1, -1}

C18_WitnessMerged ==
    /\ impl = "basic"
    /\ epc = "returned"
    /\ Len(text_blocks) = 2
    /\ Len(processed_blocks) = 1
    /\ Len(CallsOfKind("doc")[1].prompt) = 2

\* C19: every unit of work -- a merged text unit, a table, the document
\* analysis, the relationship pass -- is issued at most once in a run; a
\* call that failed or gave unrecoverable text is not issued again.
C19_NoUnitIssuedTwice ==
    impl = "basic" =>
        /\ \A i, j \in 1..Len(calls) :
              (calls[i].kind = calls[j].kind /\ calls[i].block = calls[j].block)
                  => i = j
        /\ Len(CallsOfKind("text")) <= Len(processed_blocks)
        /\ Len(CallsOfKind("table")) <= Len(table_blocks)

\* a finished run of two text units and more: the call of the first unit
\* failed and is in the log once
C19_Witness ==
    /\ impl = "basic"
    /\ epc = "returned"
    /\ Len(processed_blocks) = 2
    /\ Len(calls) >= 3
    /\ calls[1].kind = "text"
    /\ calls[1].failed
    /\ calls[2].kind = "text"
    /\ calls[2].block # calls[1].block

AwaitPositions == {"text_await", "table_await", "doc_await", "rel_await"}

\* C20: at most one inference call is outstanding at any moment of a run;
\* the run waits for the outstanding call (the last one of the log) and is
\* at a position from which it can issue the next call only when the
\* previous one has returned or failed.
C20_OneCallOutstanding ==
    impl = "basic" =>
        /\ Len(in_flight) <= 1
        /\ in_flight # <<>> <=> epc \in AwaitPositions
        /\ in_flight # <<>> =>
              /\ calls # <<>>
              /\ in_flight[1].kind = calls[Len(calls)].kind
              /\ in_flight[1].block = calls[Len(calls)].block

\* the table request is outstanding after the text request has failed
C20_Witness ==
    /\ impl = "basic"
    /\ epc = "table_await"
    /\ Len(calls) = 2
    /\ calls[1].failed
    /\ Len(in_flight) = 1
    /\ in_flight[1].kind = "table"

----------------------------------------------------------------------------
(***************************************************************************)
(* Claims about throttling, names, order and provenance in EntityExtractor *)
(* (checked under SpecExtract).                                            *)
(***************************************************************************)
\* C21: in a run of EntityExtractor the throttle delay lies between any two
\* consecutive inference calls: every call of the log that is followed by
\* another call was followed by the sleep first, also when it failed or its
\* result was rejected.
C21_DelayBetweenConsecutiveCalls ==
    impl = "basic" =>
        \A k \in 1..(Len(calls) - 1) : calls[k].slept

\* a newline and the trimmed text, for each of blocks[from..last]
RECURSIVE FoldedRun(_, _, _)
FoldedRun(blocks, from, last) ==
    IF from > last THEN <<>>
    ELSE <<Newline>> \o TextStrip(blocks[from].text)
           \o FoldedRun(blocks, from + 1, last)

\* the positions in text_blocks at which a unit starts: the first block and
\* every later block whose trimmed text has 200 characters or more
UnitStarts ==
    {k \in 1..Len(text_blocks) : k = 1 \/ IsLong(text_blocks[k])}

\* the position at which the u-th unit starts, and the one at which it ends
StartOfUnit(u) ==
    CHOOSE k \in UnitStarts : Cardinality({j \in UnitStarts : j <= k}) = u

EndOfUnit(u) ==
    IF u = Cardinality(UnitStarts) THEN Len(text_blocks)
    ELSE StartOfUnit(u + 1) - 1

\* C23: the units returned by _merge_text_blocks partition the sequence of
\* text blocks into contiguous runs in original order.  A unit starts
\* exactly at the first block and at every later block whose trimmed length
\* is >= 200; every other block is appended to the unit open before it; a
\* non-empty sequence gives 1 + (number of later blocks of trimmed length
\* >= 200) units.
C23_UnitsPartitionInOrder ==
    (impl = "merge" /\ epc = "merge_returned") =>
        /\ Len(processed_blocks) = Cardinality(UnitStarts)
        /\ text_blocks # <<>> =>
              Len(processed_blocks)
                = 1 + Cardinality({k \in 2..Len(text_blocks) :
                                      IsLong(text_blocks[k])})
        /\ \A u \in 1..Len(processed_blocks) :
              LET unit  == processed_blocks[u]
                  first == StartOfUnit(u)
                  last  == EndOfUnit(u)
              IN  /\ unit.block_index = text_blocks[first].block_index
                  /\ unit.merged_blocks
                        = [j \in 1..(last - first) |->
                              text_blocks[first + j].block_index]
                  /\ unit.text = text_blocks[first].text
                                    \o FoldedRun(text_blocks, first + 1, last)

\* four blocks in two units, each of which has absorbed the block after it
C23_Witness ==
    /\ impl = "merge"
    /\ epc = "merge_returned"
    /\ Len(text_blocks) = 4
    /\ Len(processed_blocks) = 2
    /\ processed_blocks[1].merged_blocks = <<1>>
    /\ processed_blocks[2].merged_blocks = <<3>>

\* C26 as stated: in a non-error result of EntityExtractor
\* text_blocks_processed is the number of text units submitted to the
\* service in the run and table_blocks_processed the number of table units
\* submitted.
C26_StatisticsCountSubmittedUnits ==
    (impl = "basic" /\ NonErrorResult(result)) =>
        /\ result.statistics.text_blocks_processed = Len(CallsOfKind("text"))
        /\ result.statistics.table_blocks_processed
              = Len(CallsOfKind("table"))

\* C26 amended: text_blocks_processed is the number of input elements that
\* were classified as text blocks and table_blocks_processed the number
\* classified as table blocks, whether or not they were merged, skipped as
\* too short or empty, or their calls failed; the number of units submitted
\* is never larger.
C26_StatisticsCountClassifiedBlocks ==
    (impl = "basic" /\ NonErrorResult(result)) =>
        /\ result.statistics.text_blocks_processed
              = Len(BlocksOfType(content_list, "text"))
        /\ result.statistics.table_blocks_processed
              = Len(BlocksOfType(content_list, "table"))
        /\ Len(CallsOfKind("text")) <= result.statistics.text_blocks_processed
        /\ Len(CallsOfKind("table"))
              <= result.statistics.table_blocks_processed

\* a result that counts two text blocks, which were merged and sent as one
\* unit
C26_Witness ==
    /\ impl = "basic"
    /\ NonErrorResult(result)
    /\ result.statistics.text_blocks_processed = 2
    /\ Len(CallsOfKind("text")) = 1
    /\ Len(processed_blocks) = 1

\* the text and table requests of the log, in the order they were issued
UnitCalls == SelectSeq(calls, LAMBDA c : c.kind \in {"text", "table"})

\* C27: the entities of a result of EntityExtractor are the concatenation,
\* in processing order, of the entities recovered per unit -- the text units
\* in ascending source position, then the tables in ascending source
\* position, each unit's entities in the order the service listed them,
\* none dropped, merged or moved -- so every text-sourced entity precedes
\* every table-sourced one wherever the blocks stand in the document.
C27_EntitiesInProcessingOrder ==
    (impl = "basic" /\ NonErrorResult(result)) =>
        /\ \A i, j \in 1..Len(UnitCalls) :
              i < j =>
                 \/ UnitCalls[i].kind = "text" /\ UnitCalls[j].kind = "table"
                 \/ /\ UnitCalls[i].kind = UnitCalls[j].kind
                    /\ UnitCalls[i].block < UnitCalls[j].block
        /\ result.entities = ContributionsUpTo(Len(calls), TRUE)
        /\ \A i, j \in 1..Len(result.entities) :
              (i < j /\ result.entities[i].source_type = "table")
                  => result.entities[j].source_type = "table"

\* a table stands before a text in the document; both answers list an
\* entity of the same name, and the result holds the text's one first
C27_Witness ==
    /\ impl = "basic"
    /\ NonErrorResult(result)
    /\ Len(content_list) = 2
    /\ content_list[1].type = "table"
    /\ content_list[2].type = "text"
    /\ Len(result.entities) = 2
    /\ result.entities[1].source_type = "text"
    /\ result.entities[1].source_block = 1
    /\ result.entities[2].source_type = "table"
    /\ result.entities[2].source_block = 0
    /\ result.entities[1].name = result.entities[2].name

\* C28: every entity of a result of EntityExtractor has as source_block the
\* position in the input (counting every element, whatever block_index the
\* input carried) of a block of the kind that is its source_type; the
\* entities of a merged text unit carry position and page of the unit's
\* first block, never those of a block the unit absorbed.
C28_SourceIsPositionOfFirstBlock ==
    impl = "basic" =>
        /\ epc # "start" =>
              \A k \in 1..Len(content_list) :
                  content_list[k].isdict => content_list[k].block_index = k - 1
        /\ result.kind = "result" =>
              \A n \in 1..Len(result.entities) :
                  LET entity == result.entities[n]
                      i      == entity.source_block
                  IN  /\ i \in 0..(Len(content_list) - 1)
                      /\ content_list[i + 1].isdict
                      /\ content_list[i + 1].type = entity.source_type
                      /\ entity.source_page = content_list[i + 1].page_idx
                      /\ entity.source_type = "text" =>
                            /\ \E u \in 1..Len(processed_blocks) :
                                  processed_blocks[u].block_index = i
                            /\ \A u \in 1..Len(processed_blocks) :
                                  i \notin Range(processed_blocks[u].merged_blocks)

\* an element that is no dict, then a long text, then a short text that the
\* long one's unit absorbed: the entities carry position 1 and its page
C28_Witness ==
    /\ impl = "basic"
    /\ result.kind = "result"
    /\ Len(content_list) = 3
    /\ ~content_list[1].isdict
    /\ Len(processed_blocks) = 1
    /\ processed_blocks[1].merged_blocks = <<2>>
    /\ result.entities # <<>>
    /\ \A n \in 1..Len(result.entities) :
          /\ result.entities[n].source_block = 1
          /\ result.entities[n].source_page = content_list[2].page_idx

\* two elements are the same but for block_index
SameButIndex(before, after) ==
    [after EXCEPT !.block_index = before.block_index] = before

\* C29: a run of EntityExtractor leaves the caller's input blocks unchanged
\* except for block_index: no step of the run -- classification, merging,
\* the requests -- changes text, caption, rows, kind or page of an element
\* of content_list or gives it a merged_blocks field, and the list keeps its
\* elements.
C29_InputChangesOnlyBlockIndex ==
    [][impl = "basic" =>
          /\ Len(content_list') = Len(content_list)
          /\ \A k \in 1..Len(content_list) :
                SameButIndex(content_list[k], content_list'[k])]_vars

\* a finished run that merged two text blocks into one unit and issued its
\* requests: the unit holds both texts and the merged_blocks list, the
\* input blocks hold what they held
C29_Witness ==
    /\ impl = "basic"
    /\ epc = "returned"
    /\ content_list = AssignIndex(MixedList)
    /\ Len(processed_blocks) = 1
    /\ processed_blocks[1].merged_blocks = <<2>>
    /\ processed_blocks[1].text # content_list[2].text
    /\ content_list[2].merged_blocks = <<>>
    /\ Len(calls) >= 2

\* C22: every entity of a result returned by EntityExtractor has a non-empty
\* name, whatever records the service lists.
C22_EveryEntityNamed ==
    (impl = "basic" /\ result.kind = "result") =>
        \A k \in 1..Len(result.entities) : result.entities[k].name # ""

----------------------------------------------------------------------------
(***************************************************************************)
(* Claim about the table renderers (checked under SpecRender).             *)
(***************************************************************************)
\* the rendered rows are the leading rows of the table, each cut to its
\* first cols cells, each cell to its first chars characters
IsLeadingPart(rows, table, maxrows, cols, chars) ==
    /\ Len(rows) = Min(maxrows, Len(table))
    /\ \A r \in 1..Len(rows) :
          /\ Len(rows[r]) = Min(cols, Len(table[r]))
          /\ \A c \in 1..Len(rows[r]) :
                /\ rows[r][c].row = r
                /\ rows[r][c].col = c
                /\ rows[r][c].n = Min(chars, table[r][c].n)

\* C15 as stated: whatever the size of the table, the text rendered by
\* _format_table_for_llm and by _format_table_data has at most 10 rows, at
\* most 8 cells in any row and no cell longer than 50 characters, and what
\* is kept are the leading rows, columns and characters in original order.
C15_TenRowsEightColumnsFiftyChars ==
    rendered.done =>
        /\ Len(rendered.rows) <= 10
        /\ \A r \in 1..Len(rendered.rows) :
              /\ Len(rendered.rows[r]) <= 8
              /\ \A c \in 1..Len(rendered.rows[r]) :
                    rendered.rows[r][c].n <= 50
        /\ IsLeadingPart(rendered.rows, table_body, 10, 8, 50)

============================================================================
